---- MODULE Spec2Model ----
(***************************************************************************)
(* Model of the simulation-and-execution engine of quant_project: the      *)
(* portfolio model, the position sizer, the risk rules and risk manager,   *)
(* the paper broker, the backtest engine and the live paper runner.        *)
(*                                                                         *)
(* Floats are modelled as IEEE-754 binary64 values with round-to-nearest   *)
(* arithmetic, each one a Python float or a numpy.float64; dicts keep the  *)
(* order in which their keys were inserted.                                *)
(***************************************************************************)
EXTENDS Integers, Sequences, FiniteSets, TLC

VARIABLES
    rm,            \* the RiskManager instance (or its absence) of the run
    approveLog,    \* risk harness: arguments and result of the last approve()
    breachSeen,    \* risk harness: an earlier approve() hit the daily-loss rule
    portfolio,     \* SimulatedPortfolio: cash, positions, equity_curve
    calls,         \* harness: update_position / execute / run calls made so far
    raised,        \* the last operation ended by raising an exception
    equity_series, \* BacktestEngine.run: the local list of (ts, equity)
    bars,          \* BacktestEngine.run: the bars iterated so far
    lastBar,       \* BacktestEngine.run: what the last loop iteration did
    onFills,       \* signals handed to Strategy.on_fill, in call order
    btPc,          \* BacktestEngine.run: "running", "returned" or "raised"
    session,       \* LiveSessionState: portfolio cash/positions and trades
    broker,        \* PaperBroker: fee_rate and trades ledger
    liveLast,      \* live runner: what the last _handle_bar call did
    stream,        \* LiveStream: mode, client, and where its generator is suspended
    loop,          \* the asyncio event loop: ready queue, state of the main task
    hist,          \* live session: bars received and handler events, in order
    clock          \* wall clock read by the stream, timestamps of the bars yielded

vars == <<rm, approveLog, breachSeen, portfolio, calls, raised,
          equity_series, bars, lastBar, onFills, btPc, session, broker,
          liveLast, stream, loop, hist, clock>>

riskVars == <<approveLog, breachSeen>>
btVars == <<equity_series, bars, lastBar, btPc>>
liveVars == <<session, broker, liveLast>>
asyncVars == <<stream, loop, hist, clock>>

(***************************************************************************)
(* Bounds of the model.                                                    *)
(***************************************************************************)
MaxCalls == 3
MaxBars == 2
MaxLiveBars == 3
MaxLongBars == 104
MaxLowBars == 3
MaxStreamBars == 3
MaxCloseTime == 3
MaxClock == 4
MaxExecs == 3
MaxTick == 2

(***************************************************************************)
(* Floats: IEEE-754 binary64 values.  A finite float is                    *)
(* [neg, m, e, np] with value (-1)^neg * m * 2^e, where m is an odd natural *)
(* number of at most 53 bits written as a sequence of limbs in base 2^14,  *)
(* least significant limb first (m = m[1] + m[2] * 2^14 + ...), and        *)
(* -1074 <= e, m * 2^e < 2^1024; zero is m = <<>>, e = 0, an infinity is   *)
(* m = <<>>, e = 1 and nan is m = <<>>, e = 2.  The operations round to    *)
(* nearest, ties to even, as the hardware does: results below 2^-1022 lose *)
(* precision (subnormals) down to zero, results of 2^1024 or more are      *)
(* infinite.  np tells a numpy.float64 (a value read from a float64 Series *)
(* or data frame, or computed from one) from a Python float: the result of *)
(* an operation is a numpy.float64 when one of its operands is.            *)
(***************************************************************************)
\* a op b for op one of "+", "-", "*", "/", and the truth of a op b for "<",
\* "<=" and "==", on floats; a / b with b zero is "ZeroDivisionError", which
\* the code raises, when a and b are Python floats, and an infinity or nan
\* when one of them is a numpy.float64.  The operations on the natural numbers of the mantissas
\* (sequences of limbs) and the rounding are further values of op: one
\* recursive operator holds them all
RECURSIVE FloatOp(_, _, _)
FloatOp(op, a, b) ==
    LET Base == 16384
        LimbBits == 14
        Precision == 53
        MinExp == -1074
        MaxTop == 1024
        Zero(neg) == [neg |-> neg, m |-> <<>>, e |-> 0]
        Inf(neg) == [neg |-> neg, m |-> <<>>, e |-> 1]
        Nan == [neg |-> FALSE, m |-> <<>>, e |-> 2]
        IsZero(f) == f.m = <<>> /\ f.e = 0
        IsInf(f) == f.m = <<>> /\ f.e = 1
        IsNan(f) == f.m = <<>> /\ f.e = 2
        Sign(f) == IF IsZero(f) THEN 0 ELSE IF f.neg THEN -1 ELSE 1
        Max(i, j) == IF i < j THEN j ELSE i
        Limb(u, k) == IF 1 <= k /\ k <= Len(u) THEN u[k] ELSE 0
        \* the number of bits of a limb
        SmallBits(t) == CHOOSE k \in 0..LimbBits : t < 2^k /\ (k = 0 \/ 2^(k - 1) <= t)
        ShiftLimbs(u, n) == IF u = <<>> THEN <<>> ELSE [i \in 1..n |-> 0] \o u
        \* a natural number without zero limbs at its top
        Trim(u) ==
            SubSeq(u, 1, CHOOSE k \in 0..Len(u) :
                            (k = 0 \/ u[k] # 0) /\ \A j \in (k + 1)..Len(u) : u[j] = 0)
        \* whether the sums s of limbs carry out of limb k
        Carries(s, k) ==
            \E j \in 1..k : s[j] >= Base /\ \A i \in (j + 1)..k : s[i] = Base - 1
        \* whether the differences d of limbs borrow from limb k + 1
        Borrows(d, k) ==
            \E j \in 1..k : d[j] < 0 /\ \A i \in (j + 1)..k : d[i] = 0
        BitLen(u) == FloatOp("BitLen", u, 0)
        AddNat(u, v) == FloatOp("AddNat", u, v)
        \* u - v for u >= v
        SubNat(u, v) == FloatOp("SubNat", u, v)
        \* -1, 0, 1 as u < v, u = v, u > v
        CmpNat(u, v) == FloatOp("CmpNat", u, v)
        \* u * c for 0 <= c <= Base
        MulSmall(u, c) == FloatOp("MulSmall", u, c)
        \* u * v for v of at most 4 limbs
        MulNat(u, v) == FloatOp("MulNat", u, v)
        \* u * 2^n
        ShiftLeft(u, n) == FloatOp("ShiftLeft", u, n)
        \* floor(u / 2^n)
        ShiftRight(u, n) == FloatOp("ShiftRight", u, n)
        TrailingZeros(u) == FloatOp("TrailingZeros", u, 0)
        \* the float (-1)^neg * m * 2^e for m of at most 53 bits, e >= MinExp
        Canon(neg, m, e) == FloatOp("Canon", <<neg, m>>, e)
        \* the float nearest to (-1)^neg * m * 2^e, or, when sticky, to a
        \* number between that and (-1)^neg * (m + 1) * 2^e; ties to even
        Round(neg, m, sticky, e) == FloatOp("Round", <<neg, m, sticky>>, e)
        \* the quotient q and the remainder r of u by d, 0 < d, u < d * Base^4
        DivNat(u, d) == FloatOp("DivNat", u, d)
        DivDigit(dn, cur) == FloatOp("DivDigit", dn, cur)
        \* -1, 0, 1 as |x| < |y|, |x| = |y|, |x| > |y|, neither nan
        CmpAbs(f, g) == FloatOp("CmpAbs", f, g)
        \* the float f as a Python float (np FALSE) or a numpy.float64 (np TRUE)
        Typed(f, np) == FloatOp("Typed", f, np)
    \* CHOOSE r \in {f(v) : v \in {e}} : TRUE is f(e), with e evaluated once
    IN  CHOOSE result \in {
        CASE op = "BitLen" ->
                IF x = <<>> THEN 0
                ELSE LimbBits * (Len(x) - 1) + SmallBits(x[Len(x)])
          \* limb by limb, a limb taking a carry when a lower sum reaches Base
          \* and the sums between are all Base - 1
          [] op = "AddNat" ->
                CHOOSE r \in
                    {[k \in 1..(Len(s) + IF Carries(s, Len(s)) THEN 1 ELSE 0) |->
                         IF k > Len(s) THEN 1
                         ELSE (s[k] + IF Carries(s, k - 1) THEN 1 ELSE 0) % Base] :
                     s \in {[k \in 1..Max(Len(x), Len(y)) |->
                               Limb(x, k) + Limb(y, k)]}} : TRUE
          [] op = "SubNat" ->
                CHOOSE r \in
                    {Trim([k \in 1..Len(d) |->
                              (d[k] - (IF Borrows(d, k - 1) THEN 1 ELSE 0) + Base) % Base]) :
                     d \in {[k \in 1..Len(x) |-> x[k] - Limb(y, k)]}} : TRUE
          [] op = "CmpNat" ->
                IF Len(x) # Len(y) THEN (IF Len(x) < Len(y) THEN -1 ELSE 1)
                ELSE CHOOSE r \in
                         {IF diff = {} THEN 0
                          ELSE IF \E k \in diff : x[k] < y[k] /\ \A j \in diff : j <= k
                               THEN -1 ELSE 1 :
                          diff \in {{k \in 1..Len(x) : x[k] # y[k]}}} : TRUE
          \* limb k sums the low limb of the product x[k] * y and the high limb
          \* of x[k - 1] * y
          [] op = "MulSmall" ->
                CHOOSE r \in
                    {Trim([k \in 1..Len(s) |->
                              (s[k] + IF Carries(s, k - 1) THEN 1 ELSE 0) % Base]) :
                     s \in {[k \in 1..(Len(x) + 1) |->
                               ((Limb(x, k) * y) % Base)
                               + ((Limb(x, k - 1) * y) \div Base)]}} : TRUE
          \* column k sums the products of the limbs i of x and j of y with
          \* i + j = k + 1, at most four of less than Base^2 each; the columns
          \* are added as three numbers of limbs
          [] op = "MulNat" ->
                IF x = <<>> \/ y = <<>> THEN <<>>
                ELSE CHOOSE r \in
                         {Trim(AddNat(AddNat([k \in DOMAIN col |-> col[k] % Base],
                                             <<0>> \o [k \in DOMAIN col |->
                                                          (col[k] \div Base) % Base]),
                                      <<0, 0>> \o [k \in DOMAIN col |->
                                                      col[k] \div (Base * Base)])) :
                          col \in {[k \in 1..(Len(x) + Len(y) - 1) |->
                                       Limb(x, k) * Limb(y, 1)
                                       + Limb(x, k - 1) * Limb(y, 2)
                                       + Limb(x, k - 2) * Limb(y, 3)
                                       + Limb(x, k - 3) * Limb(y, 4)]}} : TRUE
          [] op = "ShiftLeft" ->
                ShiftLimbs(MulSmall(x, 2^(y % LimbBits)), y \div LimbBits)
          \* whole limbs are dropped, then each limb takes the low bits of the
          \* limb above it
          [] op = "ShiftRight" ->
                CHOOSE r \in
                    {Trim([k \in 1..Len(kept) |->
                              kept[k] \div 2^bits
                              + (Limb(kept, k + 1) % 2^bits) * 2^(LimbBits - bits)]) :
                     bits \in {y % LimbBits},
                     kept \in {IF y \div LimbBits >= Len(x) THEN <<>>
                               ELSE SubSeq(x, y \div LimbBits + 1, Len(x))}} : TRUE
          [] op = "TrailingZeros" ->
                CHOOSE r \in
                    {LimbBits * (k - 1)
                     + (CHOOSE i \in 0..(LimbBits - 1) :
                           x[k] % 2^(i + 1) # 0 /\ x[k] % 2^i = 0) :
                     k \in {CHOOSE i \in 1..Len(x) :
                               x[i] # 0 /\ \A j \in 1..(i - 1) : x[j] = 0}} : TRUE
          [] op = "Canon" ->
                IF x[2] = <<>> THEN Zero(x[1])
                ELSE IF BitLen(x[2]) + y > MaxTop THEN Inf(x[1])
                ELSE CHOOSE r \in
                         {[neg |-> x[1], m |-> ShiftRight(x[2], tz), e |-> y + tz] :
                          tz \in {TrailingZeros(x[2])}} : TRUE
          \* drop is the number of low bits of m that the result cannot hold,
          \* q is m without them, and half compares twice what they hold with
          \* 2^drop
          [] op = "Round" ->
                CHOOSE r \in
                    {IF drop <= 0 THEN Canon(x[1], x[2], y)
                     ELSE CHOOSE r2 \in
                         {CHOOSE r3 \in
                             {Canon(x[1],
                                    IF half > 0
                                       \/ (half = 0 /\ (x[3] \/ Limb(q, 1) % 2 = 1))
                                    THEN AddNat(q, <<1>>) ELSE q,
                                    y + drop) :
                              half \in {CmpNat(ShiftLeft(SubNat(x[2], ShiftLeft(q, drop)),
                                                         1),
                                               ShiftLeft(<<1>>, drop))}} : TRUE :
                          q \in {ShiftRight(x[2], drop)}} : TRUE :
                     drop \in {Max(BitLen(x[2]) - Precision, MinExp - y)}} : TRUE
          \* y is scaled to have its top limb at least Base / 2; the four
          \* limbs of the quotient are found from the top one down, what x
          \* has above its first four limbs being the first remainder
          [] op = "DivNat" ->
                CHOOSE r \in
                    {CHOOSE r4 \in
                        {CHOOSE r3 \in
                            {CHOOSE r2 \in
                                {CHOOSE r1 \in
                                    {[q |-> Trim(<<s1.qd, s2.qd, s3.qd, s4.qd>>),
                                      r |-> s1.r] :
                                     s1 \in {DivDigit(dn, Trim(<<Limb(un, 1)>> \o s2.r))}} :
                                    TRUE :
                                 s2 \in {DivDigit(dn, Trim(<<Limb(un, 2)>> \o s3.r))}} :
                                TRUE :
                             s3 \in {DivDigit(dn, Trim(<<Limb(un, 3)>> \o s4.r))}} : TRUE :
                         s4 \in {DivDigit(dn, Trim(<<Limb(un, 4)>>
                                                   \o SubSeq(un, 5, Len(un))))}} : TRUE :
                     un \in {ShiftLeft(x, LimbBits - SmallBits(y[Len(y)]))},
                     dn \in {ShiftLeft(y, LimbBits - SmallBits(y[Len(y)]))}} : TRUE
          \* the limb qd of the quotient of y by x, y < x * Base, and the
          \* remainder: the estimate from the top limbs is qd, qd + 1 or qd + 2
          [] op = "DivDigit" ->
                CHOOSE r \in
                    {CHOOSE r2 \in
                        {[qd |-> qd, r |-> SubNat(y, MulSmall(x, qd))] :
                         qd \in {CHOOSE q \in Max(est - 2, 0)..est :
                                    /\ CmpNat(MulSmall(x, q), y) <= 0
                                    /\ q = est \/ CmpNat(MulSmall(x, q + 1), y) > 0}} :
                        TRUE :
                     est \in {IF (Limb(y, Len(x) + 1) * Base + Limb(y, Len(x)))
                                     \div x[Len(x)] >= Base
                              THEN Base - 1
                              ELSE (Limb(y, Len(x) + 1) * Base + Limb(y, Len(x)))
                                      \div x[Len(x)]}} : TRUE
          [] op = "CmpAbs" ->
                IF x.m = <<>> \/ y.m = <<>>
                THEN (IF x.m # <<>> THEN (IF IsInf(y) THEN -1 ELSE 1)
                      ELSE IF y.m # <<>> THEN (IF IsInf(x) THEN 1 ELSE -1)
                      ELSE IF x.e = y.e THEN 0 ELSE IF x.e < y.e THEN -1 ELSE 1)
                ELSE CHOOSE r \in
                         {IF tx # ty THEN (IF tx < ty THEN -1 ELSE 1)
                          ELSE CmpNat(ShiftLeft(x.m, x.e - e), ShiftLeft(y.m, y.e - e)) :
                          tx \in {BitLen(x.m) + x.e}, ty \in {BitLen(y.m) + y.e},
                          e \in {IF x.e < y.e THEN x.e ELSE y.e}} : TRUE
          [] op = "Typed" ->
                [neg |-> x.neg, m |-> x.m, e |-> x.e, np |-> y]
          [] op = "*" ->
                Typed(IF x.m # <<>> /\ y.m # <<>>
                      THEN Round(x.neg # y.neg, MulNat(x.m, y.m), FALSE, x.e + y.e)
                      ELSE IF IsNan(x) \/ IsNan(y) \/ (IsInf(x) /\ IsZero(y))
                              \/ (IsZero(x) /\ IsInf(y))
                      THEN Nan
                      ELSE IF IsInf(x) \/ IsInf(y) THEN Inf(x.neg # y.neg)
                      ELSE Zero(x.neg # y.neg),
                      x.np \/ y.np)
          \* the quotient of the mantissas is taken to 55 or 56 bits, the
          \* remainder telling whether bits were lost below them; a division
          \* by zero raises between two Python floats and gives an infinity
          \* or nan (with a RuntimeWarning) when an operand is a numpy.float64
          [] op = "/" ->
                IF x.m # <<>> /\ y.m # <<>>
                THEN Typed(CHOOSE r \in
                         {CHOOSE r2 \in
                             {Round(x.neg # y.neg, d.q, d.r # <<>>, x.e - y.e - k) :
                              d \in {DivNat(ShiftLeft(x.m, k), y.m)}} : TRUE :
                          k \in {Precision + 2 + BitLen(y.m) - BitLen(x.m)}} : TRUE,
                           x.np \/ y.np)
                ELSE IF IsZero(y) /\ ~x.np /\ ~y.np THEN "ZeroDivisionError"
                ELSE Typed(IF IsNan(x) \/ IsNan(y) \/ (IsInf(x) /\ IsInf(y))
                              \/ (IsZero(x) /\ IsZero(y))
                           THEN Nan
                           ELSE IF IsInf(x) \/ IsZero(y) THEN Inf(x.neg # y.neg)
                           ELSE Zero(x.neg # y.neg),
                           x.np \/ y.np)
          \* an operand below the last bit of the other by more than 8 bits
          \* changes nothing; otherwise the mantissas are aligned on the
          \* smaller exponent
          [] op = "+" ->
                Typed(
                IF x.m # <<>> /\ y.m # <<>>
                THEN CHOOSE r \in
                    {IF tx - ty > Precision + 8 THEN x
                     ELSE IF ty - tx > Precision + 8 THEN y
                     ELSE CHOOSE r2 \in
                         {IF x.neg = y.neg THEN Round(x.neg, AddNat(xm, ym), FALSE, e)
                          ELSE CHOOSE r3 \in
                              {IF c = 0 THEN Zero(FALSE)
                               ELSE IF c > 0
                               THEN Round(x.neg, SubNat(xm, ym), FALSE, e)
                               ELSE Round(y.neg, SubNat(ym, xm), FALSE, e) :
                               c \in {CmpNat(xm, ym)}} : TRUE :
                          xm \in {ShiftLeft(x.m, x.e - e)},
                          ym \in {ShiftLeft(y.m, y.e - e)}} : TRUE :
                     tx \in {BitLen(x.m) + x.e}, ty \in {BitLen(y.m) + y.e},
                     e \in {IF x.e < y.e THEN x.e ELSE y.e}} : TRUE
                ELSE IF IsNan(x) \/ IsNan(y) \/ (IsInf(x) /\ IsInf(y) /\ x.neg # y.neg)
                THEN Nan
                ELSE IF IsInf(x) THEN x
                ELSE IF IsInf(y) THEN y
                ELSE IF IsZero(x) /\ IsZero(y) THEN Zero(x.neg /\ y.neg)
                ELSE IF IsZero(x) THEN y
                ELSE x,
                x.np \/ y.np)
          [] op = "-" ->
                FloatOp("+", x, IF IsNan(y) THEN y ELSE [y EXCEPT !.neg = ~y.neg])
          [] op = "<" ->
                IF IsNan(x) \/ IsNan(y) THEN FALSE
                ELSE IF Sign(x) # Sign(y) THEN Sign(x) < Sign(y)
                ELSE IF Sign(x) = 0 THEN FALSE
                ELSE CmpAbs(x, y) = -Sign(x)
          [] op = "==" ->
                /\ ~IsNan(x) /\ ~IsNan(y)
                /\ \/ x.neg = y.neg /\ x.m = y.m /\ x.e = y.e
                   \/ IsZero(x) /\ IsZero(y)
          [] op = "<=" ->
                FloatOp("<", x, y) \/ FloatOp("==", x, y) :
        x \in {a}, y \in {b}} : TRUE

\* 0.0
RZero == [neg |-> FALSE, m |-> <<>>, e |-> 0, np |-> FALSE]
\* float(n) for an integer n, |n| < 2^28, a Python float
I(n) ==
    LET RECURSIVE Odd(_, _)
        Odd(k, e) ==
            IF k % 2 = 0 THEN Odd(k \div 2, e + 1)
            ELSE [neg |-> n < 0,
                  m |-> IF k < 16384 THEN <<k>> ELSE <<k % 16384, k \div 16384>>,
                  e |-> e, np |-> FALSE]
    IN  IF n = 0 THEN RZero ELSE Odd(IF n < 0 THEN -n ELSE n, 0)
\* the float that the decimal literal n/d denotes
Rat(n, d) == FloatOp("/", I(n), I(d))
RAdd(a, b) == FloatOp("+", a, b)
RNeg(a) == IF a.m = <<>> /\ a.e = 2 THEN a ELSE [a EXCEPT !.neg = ~a.neg]
RSub(a, b) == FloatOp("-", a, b)
RMul(a, b) == FloatOp("*", a, b)
RDiv(a, b) == FloatOp("/", a, b)
\* a == b on floats: 0.0 == -0.0, and nan equals nothing
REq(a, b) == FloatOp("==", a, b)
RLt(a, b) == FloatOp("<", a, b)
RLe(a, b) == FloatOp("<=", a, b)
RAbs(a) == [a EXCEPT !.neg = FALSE]
\* min(a, b): b when b < a, otherwise a
RMin(a, b) == IF RLt(b, a) THEN b ELSE a
\* the value x as the numpy.float64 that a float64 Series or data frame holds
float64(x) == [x EXCEPT !.np = TRUE]

(***************************************************************************)
(* core/types.py                                                           *)
(***************************************************************************)
Symbols == {"asset", "other"}

\* Optional[Signal]: None is the signal whose side is "NONE".
Signal(ts, side, confidence, size) ==
    [timestamp |-> ts, side |-> side, confidence |-> confidence, size |-> size]

None == Signal(0, "NONE", RZero, RZero)

Position(symbol, quantity, avg_price) ==
    [symbol |-> symbol, quantity |-> quantity, avg_price |-> avg_price]

market_value(pos, mark_price) == RMul(pos.quantity, mark_price)

\* a dict is its keys in insertion order and the value at each key
EmptyDict == [keys |-> <<>>, at |-> [s \in {} |-> 0]]

\* dict.get(key, default)
Get(d, key, default) == IF key \in DOMAIN d.at THEN d.at[key] ELSE default

\* d[key] = value: a new key goes last, a key of the dict keeps its place
Put(d, key, value) ==
    [keys |-> IF key \in DOMAIN d.at THEN d.keys ELSE Append(d.keys, key),
     at |-> [k \in DOMAIN d.at \cup {key} |-> IF k = key THEN value ELSE d.at[k]]]

\* pd.Series | None: a missing series, or a sequence of <<timestamp, value>>;
\* a Series of dtype float64 holds numpy.float64 values, one of dtype object
\* the Python floats it was given
NoSeries == [isNone |-> TRUE, data |-> <<>>]
Series(data, dtype) ==
    [isNone |-> FALSE,
     data |-> IF dtype = "float64" /\ data # <<>>
              THEN [k \in 1..Len(data) |-> <<data[k][1], float64(data[k][2])>>]
              ELSE data]

PortfolioState(cash, positions, equity_curve) ==
    [cash |-> cash, positions |-> positions, equity_curve |-> equity_curve]

\* the keys of a dict in the order in which the dict is iterated, which is
\* the order in which they were inserted
Keys(d) == d.keys

\* sum(pos.market_value(marks.get(sym, pos.avg_price)) for sym, pos in
\* positions.items()) over the first keys: 0 + v1 + v2 + ..., left to right
RECURSIVE SumValue(_, _, _)
SumValue(positions, marks, keys) ==
    IF keys = <<>> THEN RZero
    ELSE LET sym == keys[Len(keys)]
             pos == positions.at[sym]
         IN  RAdd(SumValue(positions, marks, SubSeq(keys, 1, Len(keys) - 1)),
                  market_value(pos, Get(marks, sym, pos.avg_price)))

total_value(ps, marks) ==
    RAdd(ps.cash, SumValue(ps.positions, marks, Keys(ps.positions)))

\* {"asset": price}
AssetMark(price) == Put(EmptyDict, "asset", price)

(***************************************************************************)
(* risk_management/rules.py                                                *)
(***************************************************************************)
\* rule that still passes at a drawdown equal to the threshold
MaxDailyLossRule_validate_inclusive(max_loss_pct, ps, current_equity) ==
    IF ps.equity_curve.isNone \/ ps.equity_curve.data = <<>>
    THEN TRUE
    ELSE LET start_equity == ps.equity_curve.data[1][2]
         IN  IF REq(start_equity, RZero) /\ ~start_equity.np /\ ~current_equity.np
             THEN "ZeroDivisionError"
             ELSE \E drawdown \in {RDiv(RSub(start_equity, current_equity),
                                       start_equity)} :
                     RLe(drawdown, max_loss_pct)

\* MaxDailyLossRule.validate: TRUE when the rule passes. With a curve that
\* starts at 0 the division raises when the start and the current equity are
\* Python floats; when one is a numpy.float64 (the start is, on a Series of
\* dtype float64) the drawdown is -inf (current > 0: the rule passes), +inf or
\* nan (the comparison is false: the rule blocks)
MaxDailyLossRule_validate(max_loss_pct, ps, current_equity) ==
    IF ps.equity_curve.isNone \/ ps.equity_curve.data = <<>>
    THEN TRUE
    ELSE LET start_equity == ps.equity_curve.data[1][2]
         IN  IF REq(start_equity, RZero) /\ ~start_equity.np /\ ~current_equity.np
             THEN "ZeroDivisionError"
             ELSE \E drawdown \in {RDiv(RSub(start_equity, current_equity),
                                       start_equity)} :
                     RLt(drawdown, max_loss_pct)

\* MaxPositionRule.validate
MaxPositionRule_validate(max_pct, ps, symbol, proposed_qty, price) ==
    \E equity \in {total_value(ps, Put(EmptyDict, symbol, price))} :
    \E exposure \in {IF ~REq(equity, RZero)
                     THEN RDiv(RAbs(RMul(proposed_qty, price)), equity)
                     ELSE RZero} :
        RLe(exposure, max_pct)

\* MaxPositionRule.cap_size
cap_size(max_pct, ps, symbol, proposed_qty, price) ==
    CHOOSE result \in
        {IF RLe(equity, RZero) \/ RLe(price, RZero)
         THEN RZero
         ELSE CHOOSE capped \in
                  {CHOOSE signed \in
                       {IF RLe(RZero, proposed_qty) THEN capped_qty
                        ELSE RNeg(capped_qty) :
                           capped_qty \in {RMin(RAbs(proposed_qty), max_qty)}} : TRUE :
                      max_qty \in {RDiv(RMul(max_pct, equity), price)}} : TRUE :
            equity \in {total_value(ps, Put(EmptyDict, symbol, price))}} : TRUE

(***************************************************************************)
(* risk_management/manager.py                                              *)
(***************************************************************************)
RiskManager(max_daily_loss, max_position_pct) ==
    [present |-> TRUE, max_daily_loss |-> max_daily_loss,
     max_position_pct |-> max_position_pct]

NoRiskManager == [present |-> FALSE, max_daily_loss |-> RZero,
                  max_position_pct |-> RZero]

\* the first check of RiskManager.approve raises: the curve starts at 0, held
\* as a Python float, and the current equity is a Python float
DailyLossRaises(ps, price) ==
    /\ ~ps.equity_curve.isNone /\ ps.equity_curve.data # <<>>
    /\ REq(ps.equity_curve.data[1][2], RZero)
    /\ ~ps.equity_curve.data[1][2].np
    /\ ~total_value(ps, AssetMark(price)).np

\* the first check of RiskManager.approve, when it does not raise: TRUE when
\* the daily-loss rule blocks
DailyLossBlocks(r, ps, price) ==
    ~MaxDailyLossRule_validate(r.max_daily_loss, ps,
                               total_value(ps, AssetMark(price)))

\* RiskManager.approve(signal, portfolio, price): the signal, a capped copy,
\* None, or the ZeroDivisionError of the daily-loss rule
approve(r, signal, ps, price) ==
    IF DailyLossRaises(ps, price)
    THEN "ZeroDivisionError"
    ELSE IF DailyLossBlocks(r, ps, price)
    THEN None
    ELSE IF ~MaxPositionRule_validate(r.max_position_pct, ps, "asset", signal.size, price)
         THEN CHOOSE result \in
                  {IF REq(capped_size, RZero)
                   THEN None
                   ELSE [signal EXCEPT !.size = capped_size] :
                      capped_size \in {cap_size(r.max_position_pct, ps, "asset",
                                                signal.size, price)}} : TRUE
         ELSE signal

(***************************************************************************)
(* simulation/backtester/portfolio.py                                      *)
(***************************************************************************)
InitialCash == 10000

SimulatedPortfolio(cash) ==
    [cash |-> cash, positions |-> EmptyDict,
     equity_curve |-> Series(<<>>, "float64")]

\* update_position whose SELL credits only the quantity that was held
update_position_credits_held(pf, symbol, side, qty, price) ==
    LET pos == Get(pf.positions, symbol, Position(symbol, RZero, price))
    IN  IF side = "BUY"
        THEN CHOOSE result \in
                 {IF REq(quantity, RZero) /\ ~total_cost.np /\ ~quantity.np
                  THEN [portfolio |-> pf, raised |-> TRUE]
                  ELSE [portfolio |->
                           [pf EXCEPT
                              !.positions = Put(pf.positions, symbol,
                                  [pos EXCEPT !.quantity = quantity,
                                              !.avg_price = RDiv(total_cost, quantity)]),
                              !.cash = RSub(pf.cash, RMul(qty, price))],
                        raised |-> FALSE] :
                     total_cost \in {RAdd(RMul(pos.avg_price, pos.quantity),
                                          RMul(qty, price))},
                     quantity \in {RAdd(pos.quantity, qty)}} : TRUE
        ELSE CHOOSE result \in
                 {[portfolio |->
                      [pf EXCEPT
                         !.positions = Put(pf.positions, symbol,
                             [pos EXCEPT !.quantity = RSub(pos.quantity, sold)]),
                         !.cash = RAdd(pf.cash, RMul(sold, price))],
                   raised |-> FALSE] :
                     sold \in {RMin(qty, pos.quantity)}} : TRUE

\* update_position whose SELL does not floor the quantity at 0
update_position_short(pf, symbol, side, qty, price) ==
    LET pos == Get(pf.positions, symbol, Position(symbol, RZero, price))
    IN  IF side = "BUY"
        THEN CHOOSE result \in
                 {IF REq(quantity, RZero) /\ ~total_cost.np /\ ~quantity.np
                  THEN [portfolio |-> pf, raised |-> TRUE]
                  ELSE [portfolio |->
                           [pf EXCEPT
                              !.positions = Put(pf.positions, symbol,
                                  [pos EXCEPT !.quantity = quantity,
                                              !.avg_price = RDiv(total_cost, quantity)]),
                              !.cash = RSub(pf.cash, RMul(qty, price))],
                        raised |-> FALSE] :
                     total_cost \in {RAdd(RMul(pos.avg_price, pos.quantity),
                                          RMul(qty, price))},
                     quantity \in {RAdd(pos.quantity, qty)}} : TRUE
        ELSE [portfolio |->
                 [pf EXCEPT
                    !.positions = Put(pf.positions, symbol,
                        [pos EXCEPT !.quantity = RSub(pos.quantity, qty)]),
                    !.cash = RAdd(pf.cash, RMul(qty, price))],
              raised |-> FALSE]

\* SimulatedPortfolio.update_position: the portfolio after the call, and whether
\* the call raised: ZeroDivisionError when a BUY leaves the quantity at 0 and
\* total_cost and the quantity are Python floats (the quantity of a stored
\* position has then already been changed in place); when one of them is a
\* numpy.float64 the division gives nan or an infinity and the call goes on
update_position(pf, symbol, side, qty, price) ==
    LET pos == Get(pf.positions, symbol, Position(symbol, RZero, price))
    IN  IF side = "BUY"
        THEN CHOOSE result \in
                 {IF REq(quantity, RZero) /\ ~total_cost.np /\ ~quantity.np
                  THEN [portfolio |->
                           IF symbol \in DOMAIN pf.positions.at
                           THEN [pf EXCEPT !.positions.at[symbol].quantity = quantity]
                           ELSE pf,
                        raised |-> TRUE]
                  ELSE [portfolio |->
                           [pf EXCEPT
                              !.positions = Put(pf.positions, symbol,
                                  [pos EXCEPT !.quantity = quantity,
                                              !.avg_price = RDiv(total_cost, quantity)]),
                              !.cash = RSub(pf.cash, RMul(qty, price))],
                        raised |-> FALSE] :
                     total_cost \in {RAdd(RMul(pos.avg_price, pos.quantity),
                                          RMul(qty, price))},
                     quantity \in {RAdd(pos.quantity, qty)}} : TRUE
        ELSE CHOOSE result \in
                 {[portfolio |->
                      [pf EXCEPT
                         !.positions = Put(pf.positions, symbol,
                             [pos EXCEPT !.quantity = IF RLe(quantity, RZero)
                                                      THEN RZero ELSE quantity]),
                         !.cash = RAdd(pf.cash, RMul(qty, price))],
                   raised |-> FALSE] :
                     quantity \in {RSub(pos.quantity, qty)}} : TRUE

\* SimulatedPortfolio.mark_to_market: value starts at cash, each position adds
RECURSIVE AddMarks(_, _, _, _)
AddMarks(value, positions, marks, keys) ==
    IF keys = <<>> THEN value
    ELSE LET sym == Head(keys)
             pos == positions.at[sym]
         IN  AddMarks(RAdd(value, RMul(pos.quantity, Get(marks, sym, pos.avg_price))),
                      positions, marks, Tail(keys))

mark_to_market(pf, marks) ==
    AddMarks(pf.cash, pf.positions, marks, Keys(pf.positions))

(***************************************************************************)
(* strategy_engine/position_sizing.py                                      *)
(***************************************************************************)
Fraction == Rat(1, 100)

\* sum(pos.avg_price * pos.quantity for pos in positions.values()) over
\* the first keys, left to right
RECURSIVE SumCost(_, _)
SumCost(positions, keys) ==
    IF keys = <<>> THEN RZero
    ELSE LET sym == keys[Len(keys)]
         IN  RAdd(SumCost(positions, SubSeq(keys, 1, Len(keys) - 1)),
                  RMul(positions.at[sym].avg_price, positions.at[sym].quantity))

\* risk_capital of fixed_fractional: equity * fraction
risk_capital(pf, fraction) ==
    CHOOSE capital \in
        {RMul(equity, fraction) :
            equity \in {RAdd(pf.cash,
                             SumCost(pf.positions, Keys(pf.positions)))}} : TRUE

\* fixed_fractional(signal, portfolio, fraction, price): the size, or
\* "ZeroDivisionError" when the price is 0 and the price and risk_capital are
\* Python floats
fixed_fractional(signal, pf, fraction, price) ==
    RDiv(risk_capital(pf, fraction), price)

\* the division of fixed_fractional raises
SizingRaises(pf, fraction, price) ==
    REq(price, RZero) /\ ~price.np /\ ~risk_capital(pf, fraction).np

(***************************************************************************)
(* Initial values of the parts a specification does not use.               *)
(***************************************************************************)
NoCall ==
    [called |-> FALSE, signal |-> None,
     portfolio |-> PortfolioState(RZero, EmptyDict, NoSeries),
     price |-> RZero, result |-> None, raised |-> FALSE,
     blockedByLoss |-> FALSE, afterBreach |-> FALSE]

NoBar ==
    [processed |-> FALSE, ts |-> 0, price |-> RZero, signal |-> None,
     before |-> SimulatedPortfolio(RZero), outcome |-> "none", trace |-> <<>>,
     fills_before |-> 0, entries_before |-> 0]

NoHandled ==
    [handled |-> 0, price |-> RZero, signal |-> None, outcome |-> "none",
     trace |-> <<>>,
     before |-> [portfolio |-> PortfolioState(RZero, EmptyDict, NoSeries),
                 trades |-> <<>>]]

InitRiskPart == approveLog = NoCall /\ breachSeen = FALSE
InitPortfolioPart ==
    portfolio = SimulatedPortfolio(I(InitialCash)) /\ calls = <<>> /\ raised = FALSE
InitBacktestPart ==
    /\ equity_series = <<>> /\ bars = <<>> /\ lastBar = NoBar
    /\ onFills = <<>> /\ btPc = "idle"
InitLivePart ==
    /\ session = [portfolio |-> PortfolioState(RZero, EmptyDict, NoSeries),
                  trades |-> <<>>]
    /\ broker = [fee_rate |-> RZero, trades |-> <<>>]
    /\ liveLast = NoHandled

\* no stream constructed, no event loop running
NoStream ==
    [mode |-> "synthetic", lib |-> FALSE, pc |-> "init", client |-> "none",
     last_close |-> 0, fallback_to_synthetic |-> FALSE, closing_for |-> "none"]
NoLoop ==
    [entry |-> "none", ready |-> <<>>, main |-> "done", must_cancel |-> FALSE,
     cancel_requested |-> FALSE, result |-> "none"]
NoHistory == [received |-> <<>>, events |-> <<>>, parity |-> 0]
NoClock == [now |-> 0, stamps |-> <<>>]
InitAsyncPart ==
    stream = NoStream /\ loop = NoLoop /\ hist = NoHistory /\ clock = NoClock

(***************************************************************************)
(* Risk harness: approve() calls on one RiskManager instance, with any     *)
(* signal, portfolio snapshot and price.                                   *)
(***************************************************************************)
HarnessManagers ==
    {RiskManager(Rat(1, 5), Rat(1, 2)), RiskManager(Rat(1, 5), RZero),
     RiskManager(Rat(1, 5), Rat(3, 10))}
HarnessSides == {"BUY", "SELL"}
HarnessSizes == {I(-100), I(0), Rat(9, 10), I(100)}
HarnessCash == {I(-1000), I(3), I(10000)}
HarnessPositions ==
    {EmptyDict, Put(EmptyDict, "asset", Position("asset", I(10), I(100)))}
HarnessCurves ==
    {NoSeries, Series(<<<<1, I(10000)>>>>, "float64"),
     Series(<<<<1, RZero>>>>, "float64"), Series(<<<<1, RZero>>>>, "object")}
HarnessPrices == {I(-100), I(0), I(1), I(100)}

\* the approve() calls of the harness, each with what it returns (None is
\* logged for a call that raised)
HarnessCalls ==
    {[manager |-> r, signal |-> Signal(1, side, I(1), size),
      portfolio |-> PortfolioState(cash, positions, curve), price |-> price,
      result |->
         IF DailyLossRaises(PortfolioState(cash, positions, curve), price)
         THEN None
         ELSE approve(r, Signal(1, side, I(1), size),
                      PortfolioState(cash, positions, curve), price),
      raised |-> DailyLossRaises(PortfolioState(cash, positions, curve), price),
      blockedByLoss |->
         /\ ~DailyLossRaises(PortfolioState(cash, positions, curve), price)
         /\ DailyLossBlocks(r, PortfolioState(cash, positions, curve), price)] :
     r \in HarnessManagers, side \in HarnessSides, size \in HarnessSizes,
     cash \in HarnessCash, positions \in HarnessPositions,
     curve \in HarnessCurves, price \in HarnessPrices}

InitRisk ==
    /\ rm \in HarnessManagers
    /\ InitRiskPart /\ InitPortfolioPart /\ InitBacktestPart /\ InitLivePart
    /\ InitAsyncPart

Approve ==
    \E c \in HarnessCalls :
        /\ c.manager = rm
        /\ approveLog' =
              [called |-> TRUE, signal |-> c.signal, portfolio |-> c.portfolio,
               price |-> c.price, result |-> c.result, raised |-> c.raised,
               blockedByLoss |-> c.blockedByLoss, afterBreach |-> breachSeen]
        /\ breachSeen' = (breachSeen \/ c.blockedByLoss)
        /\ raised' = c.raised
        /\ UNCHANGED <<rm, portfolio, calls, btVars, onFills, liveVars, asyncVars>>

SpecRisk == InitRisk /\ [][Approve]_vars

(***************************************************************************)
(* MaxDailyLossRule.validate called on its own: thresholds, equity curves  *)
(* and current equities around the threshold.                              *)
(***************************************************************************)
LossThresholds == {RZero, Rat(1, 200), Rat(1, 10), Rat(1, 5)}
RuleCurves ==
    {NoSeries, Series(<<>>, "float64"), Series(<<<<1, I(10000)>>>>, "float64"),
     Series(<<<<1, I(10000)>>, <<2, I(5000)>>>>, "float64"),
     Series(<<<<1, I(8000)>>, <<2, I(10000)>>>>, "float64"),
     Series(<<<<1, I(1)>>>>, "float64"), Series(<<<<1, I(8000)>>>>, "object"),
     Series(<<<<1, RZero>>, <<2, I(8000)>>>>, "float64"),
     Series(<<<<1, RZero>>>>, "object")}
RuleEquities ==
    {I(-1000), I(0), Rat(9, 10), I(7999), I(8000), I(8001), I(9950), I(10000),
     I(12000), float64(I(8000))}

InitLossRule ==
    /\ \E p \in LossThresholds : rm = RiskManager(p, Rat(1, 2))
    /\ InitRiskPart /\ InitPortfolioPart /\ InitBacktestPart /\ InitLivePart
    /\ InitAsyncPart

\* self.rules[0].validate(portfolio, current_equity); the log holds the
\* current equity as the cash of a portfolio without positions
ValidateLoss ==
    \E curve \in RuleCurves, current_equity \in RuleEquities :
    \E ps \in {PortfolioState(current_equity, EmptyDict, curve)} :
    \E raises \in {DailyLossRaises(ps, RZero)} :
        /\ approveLog' =
              [called |-> TRUE, signal |-> None, portfolio |-> ps,
               price |-> RZero, result |-> None, raised |-> raises,
               blockedByLoss |->
                  /\ ~raises
                  /\ ~MaxDailyLossRule_validate(rm.max_daily_loss, ps,
                                                current_equity),
               afterBreach |-> breachSeen]
        /\ breachSeen' = (breachSeen \/ approveLog'.blockedByLoss)
        /\ raised' = raises
        /\ UNCHANGED <<rm, portfolio, calls, btVars, onFills, liveVars, asyncVars>>

SpecLossRule == InitLossRule /\ [][ValidateLoss]_vars

(***************************************************************************)
(* Portfolio harness: update_position calls on one SimulatedPortfolio.     *)
(***************************************************************************)
CallSides == {"BUY", "SELL"}
CallQtys == {I(0), I(3), I(20)}
CallPrices == {Rat(1, 10), I(100)}

InitPortfolio ==
    /\ rm = NoRiskManager
    /\ InitRiskPart /\ InitPortfolioPart /\ InitBacktestPart /\ InitLivePart
    /\ InitAsyncPart

UpdatePosition ==
    /\ Len(calls) < MaxCalls
    /\ \E symbol \in Symbols, side \in CallSides, qty \in CallQtys,
          price \in CallPrices :
       \E r \in {update_position(portfolio, symbol, side, qty, price)} :
            /\ portfolio' = r.portfolio
            /\ raised' = r.raised
            /\ calls' = Append(calls,
                  [symbol |-> symbol, side |-> side, qty |-> qty, price |-> price,
                   before |-> portfolio, raised |-> r.raised])
    /\ UNCHANGED <<rm, riskVars, btVars, onFills, liveVars, asyncVars>>

SpecPortfolio == InitPortfolio /\ [][UpdatePosition]_vars

(***************************************************************************)
(* Valuation harness: PortfolioState.total_value and                       *)
(* SimulatedPortfolio.mark_to_market called with the same cash, positions  *)
(* and marks.                                                              *)
(***************************************************************************)
ValuationPortfolios ==
    {[SimulatedPortfolio(cash) EXCEPT !.positions = positions] :
        cash \in {I(-500), I(0), Rat(1, 10), I(1000), I(10000)},
        positions \in
            {EmptyDict,
             Put(Put(EmptyDict, "asset", Position("asset", I(1), Rat(1, 5))),
                 "other", Position("other", I(1), Rat(3, 10))),
             Put(Put(EmptyDict, "other", Position("other", I(1), Rat(3, 10))),
                 "asset", Position("asset", I(1), Rat(1, 5))),
             Put(EmptyDict, "asset", Position("asset", I(10), I(100))),
             Put(Put(EmptyDict, "asset", Position("asset", I(10), I(100))),
                 "other", Position("other", I(3), I(70))),
             Put(Put(EmptyDict, "other", Position("other", I(20), I(100))),
                 "asset", Position("asset", I(3), Rat(1, 10))),
             Put(Put(EmptyDict, "asset", Position("asset", RZero, I(100))),
                 "other", Position("other", Rat(1, 2), I(70)))}}
ValuationMarks ==
    {EmptyDict, AssetMark(I(50)), AssetMark(Rat(3, 10)),
     Put(EmptyDict, "other", I(80)),
     Put(Put(EmptyDict, "asset", I(120)), "other", I(60))}

InitValuation ==
    /\ rm = NoRiskManager
    /\ InitRiskPart /\ InitBacktestPart /\ InitLivePart /\ InitAsyncPart
    /\ portfolio \in ValuationPortfolios
    /\ calls = <<>> /\ raised = FALSE

Valuate ==
    /\ Len(calls) < MaxCalls
    /\ \E marks \in ValuationMarks :
          calls' = Append(calls,
             [marks |-> marks,
              total_value |->
                 total_value(PortfolioState(portfolio.cash, portfolio.positions,
                                            portfolio.equity_curve), marks),
              mark_to_market |-> mark_to_market(portfolio, marks)])
    /\ UNCHANGED <<rm, riskVars, portfolio, raised, btVars, onFills, liveVars, asyncVars>>

SpecValuation == InitValuation /\ [][Valuate]_vars

(***************************************************************************)
(* simulation/backtester/engine.py                                         *)
(***************************************************************************)
\* what one iteration of the loop of BacktestEngine.run leaves: the portfolio,
\* the signals handed to on_fill, the pairs appended to equity_series, the
\* steps taken in order, and whether it raised
BarResult(pf, outcome, fills, appended, trace, bar_raised) ==
    [portfolio |-> pf, outcome |-> outcome, fills |-> fills,
     appended |-> appended, trace |-> trace, raised |-> bar_raised]

\* rejected branch that continues without recording the equity
rejected_bar_no_append(pf, ts, price, signal, outcome, trace) ==
    BarResult(pf, outcome, <<>>, <<>>, trace, FALSE)

\* rejected branch that falls through to the portfolio update
rejected_bar_fills(pf, ts, price, signal, outcome, trace) ==
    CHOOSE result \in
        {BarResult(u.portfolio, outcome, <<>>,
                   <<<<ts, mark_to_market(u.portfolio, AssetMark(price))>>>>,
                   Append(trace, "append"), FALSE) :
            u \in {update_position(pf, "asset", signal.side, signal.size, price)}} : TRUE

\* the branch taken when approve() returned None for `signal` (the raw signal
\* at the first gate, the sized one at the second): the equity is recorded and
\* the loop continues
rejected_bar(pf, ts, price, signal, outcome, trace) ==
    BarResult(pf, outcome, <<>>,
              <<<<ts, mark_to_market(pf, AssetMark(price))>>>>,
              Append(trace, "append"), FALSE)

\* loop body that sizes first and consults the risk manager once, after sizing
run_bar_size_first(r, pf, ts, price, signal) ==
    LET portfolio_state == PortfolioState(pf.cash, pf.positions, pf.equity_curve)
        t2 == IF r.present THEN <<"size", "approve">> ELSE <<"size">>
    IN  IF signal = None
        THEN BarResult(pf, "no_signal", <<>>,
                       <<<<ts, mark_to_market(pf, AssetMark(price))>>>>,
                       <<"append">>, FALSE)
        ELSE IF SizingRaises(pf, Fraction, price)
        THEN BarResult(pf, "raised", <<>>, <<>>, <<"size">>, TRUE)
        ELSE CHOOSE result \in
            {CHOOSE gated \in
                {IF r.present /\ sized_signal = None
                 THEN rejected_bar(pf, ts, price, approved_signal,
                                   "rejected_second", t2)
                 ELSE CHOOSE filled \in
                     {IF u.raised
                      THEN BarResult(u.portfolio, "raised", <<>>, <<>>,
                                     Append(t2, "update"), TRUE)
                      ELSE BarResult(u.portfolio, "filled", <<sized_signal>>,
                               <<<<ts, mark_to_market(u.portfolio,
                                                      AssetMark(price))>>>>,
                               t2 \o <<"update", "on_fill", "append">>, FALSE) :
                         u \in {update_position(pf, "asset", sized_signal.side,
                                                sized_signal.size, price)}} : TRUE :
                    sized_signal \in
                        {IF r.present
                         THEN approve(r, approved_signal, portfolio_state, price)
                         ELSE approved_signal}} : TRUE :
                approved_signal \in
                    {[signal EXCEPT
                        !.size = fixed_fractional(signal, pf, Fraction, price)]}} :
            TRUE

\* one iteration of the loop of BacktestEngine.run over the bar (ts, close =
\* price) for which the strategy returned `signal`: first gate on the raw
\* signal, sizing, second gate on the sized signal, fill, on_fill, append;
\* an exception of the sizing or of the portfolio update leaves the loop
run_bar(r, pf, ts, price, signal) ==
    LET portfolio_state == PortfolioState(pf.cash, pf.positions, pf.equity_curve)
        t1 == IF r.present THEN <<"approve">> ELSE <<>>
        t2 == IF r.present THEN <<"approve", "size", "approve">> ELSE <<"size">>
    IN  IF signal = None
        THEN BarResult(pf, "no_signal", <<>>,
                       <<<<ts, mark_to_market(pf, AssetMark(price))>>>>,
                       <<"append">>, FALSE)
        ELSE CHOOSE result \in
            {IF r.present /\ first = None
             THEN rejected_bar(pf, ts, price, signal, "rejected_first", t1)
             ELSE IF SizingRaises(pf, Fraction, price)
             THEN BarResult(pf, "raised", <<>>, <<>>, Append(t1, "size"), TRUE)
             ELSE CHOOSE sized \in
                 {CHOOSE gated \in
                     {IF r.present /\ sized_signal = None
                      THEN rejected_bar(pf, ts, price, approved_signal,
                                        "rejected_second", t2)
                      ELSE CHOOSE filled \in
                          {IF u.raised
                           THEN BarResult(u.portfolio, "raised", <<>>, <<>>,
                                          Append(t2, "update"), TRUE)
                           ELSE BarResult(u.portfolio, "filled", <<sized_signal>>,
                                    <<<<ts, mark_to_market(u.portfolio,
                                                           AssetMark(price))>>>>,
                                    t2 \o <<"update", "on_fill", "append">>, FALSE) :
                              u \in {update_position(pf, "asset", sized_signal.side,
                                                     sized_signal.size, price)}} : TRUE :
                         sized_signal \in
                             {IF r.present
                              THEN approve(r, approved_signal, portfolio_state, price)
                              ELSE approved_signal}} : TRUE :
                     approved_signal \in
                         {[first EXCEPT
                             !.size = fixed_fractional(first, pf, Fraction, price)]}} :
                 TRUE :
                first \in {IF r.present
                           THEN approve(r, signal, portfolio_state, price)
                           ELSE signal}} : TRUE

\* dict(pairs): one entry per distinct key, in the order of the first
\* occurrence of the key, holding the value of its last occurrence
DictOf(pairs) ==
    LET idx == [i \in 1..Len(pairs) |-> i]
        IsFirst(i) == \A j \in 1..(i - 1) : pairs[j][1] # pairs[i][1]
        firsts == SelectSeq(idx, IsFirst)
        LastOf(i) == CHOOSE j \in i..Len(pairs) :
                        /\ pairs[j][1] = pairs[i][1]
                        /\ \A m \in (j + 1)..Len(pairs) : pairs[m][1] # pairs[i][1]
    IN  [k \in 1..Len(firsts) |-> <<pairs[firsts[k]][1], pairs[LastOf(firsts[k])][2]>>]

\* the bars of the data frame and the signals of the strategy
BacktestManagers ==
    {NoRiskManager, RiskManager(Rat(1, 200), Rat(1, 2)),
     RiskManager(Rat(1, 5), RZero), RiskManager(Rat(1, 5), Rat(1, 200))}
BarPrices == {I(50), I(100)}
RawSizes == {I(0), I(100)}
StrategySignals(ts) ==
    {None} \cup {Signal(ts, side, I(1), size) : side \in {"BUY", "SELL"}, size \in RawSizes}
NextTimestamps ==
    IF bars = <<>> THEN {1} ELSE {bars[Len(bars)].ts, bars[Len(bars)].ts + 1}

InitBacktest ==
    /\ rm \in BacktestManagers
    /\ InitRiskPart /\ InitPortfolioPart /\ InitLivePart /\ InitAsyncPart
    /\ equity_series = <<>> /\ bars = <<>> /\ lastBar = NoBar
    /\ onFills = <<>> /\ btPc = "running"

\* for ts, row in data.iterrows(): ... one iteration
BarStep ==
    /\ btPc = "running"
    /\ Len(bars) < MaxBars
    /\ \E ts \in NextTimestamps, price \in BarPrices :
       \E signal \in StrategySignals(ts) :
       \E b \in {run_bar(rm, portfolio, ts, price, signal)} :
            /\ portfolio' = b.portfolio
            /\ equity_series' = equity_series \o b.appended
            /\ onFills' = onFills \o b.fills
            /\ bars' = Append(bars, [ts |-> ts, close |-> price, signal |-> signal])
            /\ lastBar' = [processed |-> TRUE, ts |-> ts, price |-> price,
                           signal |-> signal, before |-> portfolio,
                           outcome |-> b.outcome, trace |-> b.trace,
                           fills_before |-> Len(onFills),
                           entries_before |-> Len(equity_series)]
            /\ raised' = b.raised
            /\ btPc' = IF b.raised THEN "raised" ELSE "running"
    /\ UNCHANGED <<rm, riskVars, calls, liveVars, asyncVars>>

\* the end of BacktestEngine.run: the curve is built, a Series of dtype
\* float64, and the state returned; equity_curve.iloc[-1] raises IndexError
\* on an empty curve
Finish ==
    /\ btPc = "running"
    /\ portfolio' = [portfolio EXCEPT !.equity_curve = Series(DictOf(equity_series), "float64")]
    /\ raised' = (equity_series = <<>>)
    /\ btPc' = IF equity_series = <<>> THEN "raised" ELSE "returned"
    /\ UNCHANGED <<rm, riskVars, calls, equity_series, bars, lastBar, onFills, liveVars, asyncVars>>

Next == BarStep \/ Finish

Spec == InitBacktest /\ [][Next]_vars

(***************************************************************************)
(* The loop of BacktestEngine.run over bars whose closes make the sizes    *)
(* and the cash amounts of the fills inexact in binary.                    *)
(***************************************************************************)
FillBarStep ==
    /\ btPc = "running"
    /\ Len(bars) < MaxBars
    /\ \E ts \in NextTimestamps, price \in {Rat(3, 10), I(120)} :
       \E signal \in StrategySignals(ts) :
       \E b \in {run_bar(rm, portfolio, ts, price, signal)} :
            /\ portfolio' = b.portfolio
            /\ equity_series' = equity_series \o b.appended
            /\ onFills' = onFills \o b.fills
            /\ bars' = Append(bars, [ts |-> ts, close |-> price, signal |-> signal])
            /\ lastBar' = [processed |-> TRUE, ts |-> ts, price |-> price,
                           signal |-> signal, before |-> portfolio,
                           outcome |-> b.outcome, trace |-> b.trace,
                           fills_before |-> Len(onFills),
                           entries_before |-> Len(equity_series)]
            /\ raised' = b.raised
            /\ btPc' = IF b.raised THEN "raised" ELSE "running"
    /\ UNCHANGED <<rm, riskVars, calls, liveVars, asyncVars>>

SpecFills == InitBacktest /\ [][FillBarStep \/ Finish]_vars

(***************************************************************************)
(* BacktestEngine constructed with a slippage: the field is stored on the  *)
(* engine and carried here with the record of the last bar; run never      *)
(* reads it, and the price handed to update_position is the bar's close.   *)
(***************************************************************************)
InitSlippage ==
    /\ rm \in BacktestManagers
    /\ InitRiskPart /\ InitPortfolioPart /\ InitLivePart /\ InitAsyncPart
    /\ equity_series = <<>> /\ bars = <<>>
    /\ \E slippage \in {RZero, Rat(1, 100), Rat(1, 2)} :
            lastBar = NoBar @@ [slippage |-> slippage]
    /\ onFills = <<>> /\ btPc = "running"

\* one iteration of the loop of an engine that has a slippage field
SlippageBarStep ==
    /\ btPc = "running"
    /\ Len(bars) < MaxBars
    /\ \E ts \in NextTimestamps, price \in BarPrices :
       \E signal \in StrategySignals(ts) :
       \E b \in {run_bar(rm, portfolio, ts, price, signal)} :
            /\ portfolio' = b.portfolio
            /\ equity_series' = equity_series \o b.appended
            /\ onFills' = onFills \o b.fills
            /\ bars' = Append(bars, [ts |-> ts, close |-> price, signal |-> signal])
            /\ lastBar' = [processed |-> TRUE, ts |-> ts, price |-> price,
                           signal |-> signal, before |-> portfolio,
                           outcome |-> b.outcome, trace |-> b.trace,
                           fills_before |-> Len(onFills),
                           entries_before |-> Len(equity_series),
                           slippage |-> lastBar.slippage]
            /\ raised' = b.raised
            /\ btPc' = IF b.raised THEN "raised" ELSE "running"
    /\ UNCHANGED <<rm, riskVars, calls, liveVars, asyncVars>>

SpecSlippage == InitSlippage /\ [][SlippageBarStep \/ Finish]_vars

(***************************************************************************)
(* BacktestEngine.run with a strategy whose generate_signal may raise on a *)
(* bar, over closes that include 0.0, at which the sizing divides by zero: *)
(* the loop has no exception handler, so an exception leaves run.          *)
(***************************************************************************)
\* the column of closes of a data frame: Python floats in every row (a frame
\* of dtype object) or numpy.float64 values in every row (a float64 frame)
FrameCloses(closes) ==
    IF bars = <<>> THEN closes \cup {float64(c) : c \in closes}
    ELSE IF bars[1].close.np THEN {float64(c) : c \in closes}
    ELSE closes

\* stands for "generate_signal raised" among the results of the strategy
StrategyRaises == Signal(0, "RAISES", RZero, RZero)

\* one iteration of the loop when generate_signal may raise
run_bar_or_raise(r, pf, ts, price, result) ==
    IF result = StrategyRaises
    THEN BarResult(pf, "raised", <<>>, <<>>, <<"generate_signal">>, TRUE)
    ELSE run_bar(r, pf, ts, price, result)

ErrBarStep ==
    /\ btPc = "running"
    /\ Len(bars) < MaxBars
    /\ \E ts \in NextTimestamps, price \in FrameCloses(BarPrices \cup {RZero}) :
       \E result \in StrategySignals(ts) \cup {StrategyRaises} :
       \E b \in {run_bar_or_raise(rm, portfolio, ts, price, result)} :
            /\ portfolio' = b.portfolio
            /\ equity_series' = equity_series \o b.appended
            /\ onFills' = onFills \o b.fills
            /\ bars' = Append(bars, [ts |-> ts, close |-> price, signal |-> result])
            /\ lastBar' = [processed |-> TRUE, ts |-> ts, price |-> price,
                           signal |-> result, before |-> portfolio,
                           outcome |-> b.outcome, trace |-> b.trace,
                           fills_before |-> Len(onFills),
                           entries_before |-> Len(equity_series)]
            /\ raised' = b.raised
            /\ btPc' = IF b.raised THEN "raised" ELSE "running"
    /\ UNCHANGED <<rm, riskVars, calls, liveVars, asyncVars>>

NextBarErrors == ErrBarStep \/ Finish

SpecBarErrors == InitBacktest /\ [][NextBarErrors]_vars

(***************************************************************************)
(* Two successive calls of run on the same BacktestEngine, with the same   *)
(* RiskManager instance, over the same data frame, the strategy returning  *)
(* the same signal for the same bar. `calls` logs each finished call: its  *)
(* bars and what it returned.                                              *)
(***************************************************************************)
\* engine that goes on with the portfolio the previous call left
run_portfolio_kept(last, initial_cash) ==
    [last EXCEPT !.equity_curve = Series(<<>>, "float64")]

\* the portfolio a call of run starts with: a new SimulatedPortfolio, whatever
\* portfolio `last` the previous call on the engine ended with
run_portfolio(last, initial_cash) == SimulatedPortfolio(initial_cash)

\* what a finished call of run gave: the state returned, or the exception
RunResult(run_bars, pf, pc) ==
    [bars |-> run_bars, outcome |-> pc,
     cash |-> pf.cash, positions |-> pf.positions, equity_curve |-> pf.equity_curve]

\* the bars the current call may be given next: any bar in the first call,
\* the bars of the first call in the second
RunInputs ==
    IF calls = <<>>
    THEN {[ts |-> ts, close |-> price, signal |-> signal] :
             ts \in NextTimestamps, price \in BarPrices,
             signal \in UNION {StrategySignals(t) : t \in NextTimestamps}}
    ELSE IF Len(bars) < Len(calls[1].bars)
         THEN {calls[1].bars[Len(bars) + 1]}
         ELSE {}

InitTwoRuns == InitBacktest

\* for ts, row in data.iterrows(): ... one iteration, in either call
RunBarStep ==
    /\ btPc = "running"
    /\ Len(calls) < 2
    /\ Len(bars) < MaxBars
    /\ \E bar \in RunInputs :
       \E b \in {run_bar(rm, portfolio, bar.ts, bar.close, bar.signal)} :
            /\ bar.signal # None => bar.signal.timestamp = bar.ts
            /\ portfolio' = b.portfolio
            /\ equity_series' = equity_series \o b.appended
            /\ onFills' = onFills \o b.fills
            /\ bars' = Append(bars, bar)
            /\ lastBar' = [processed |-> TRUE, ts |-> bar.ts, price |-> bar.close,
                           signal |-> bar.signal, before |-> portfolio,
                           outcome |-> b.outcome, trace |-> b.trace,
                           fills_before |-> Len(onFills),
                           entries_before |-> Len(equity_series)]
            /\ raised' = b.raised
            /\ btPc' = IF b.raised THEN "raised" ELSE "running"
            /\ calls' = IF b.raised
                        THEN Append(calls, RunResult(Append(bars, bar), b.portfolio,
                                                     "raised"))
                        ELSE calls
    /\ UNCHANGED <<rm, riskVars, liveVars, asyncVars>>

\* the data frame is exhausted: the curve is built and the state returned
RunFinish ==
    /\ btPc = "running"
    /\ Len(calls) < 2
    /\ calls # <<>> => Len(bars) = Len(calls[1].bars)
    /\ \E pc \in {IF equity_series = <<>> THEN "raised" ELSE "returned"} :
       \E pf \in {[portfolio EXCEPT !.equity_curve = Series(DictOf(equity_series), "float64")]} :
            /\ portfolio' = pf
            /\ raised' = (pc = "raised")
            /\ btPc' = pc
            /\ calls' = Append(calls, RunResult(bars, pf, pc))
    /\ UNCHANGED <<rm, riskVars, equity_series, bars, lastBar, onFills, liveVars,
                   asyncVars>>

\* run is called again on the same engine
RunAgain ==
    /\ btPc \in {"returned", "raised"}
    /\ Len(calls) = 1
    /\ portfolio' = run_portfolio(portfolio, I(InitialCash))
    /\ equity_series' = <<>> /\ bars' = <<>> /\ lastBar' = NoBar
    /\ raised' = FALSE
    /\ btPc' = "running"
    /\ UNCHANGED <<rm, riskVars, calls, onFills, liveVars, asyncVars>>

NextTwoRuns == RunBarStep \/ RunFinish \/ RunAgain

SpecTwoRuns == InitTwoRuns /\ [][NextTwoRuns]_vars

(***************************************************************************)
(* BacktestEngine.run over a long data frame, of dtype object or float64:  *)
(* closes at HighClose while the strategy buys, then a few at LowClose.    *)
(***************************************************************************)
HighClose == I(1000)
LowClose == I(5)
LongManagers == {NoRiskManager, RiskManager(Rat(1, 5), Rat(1, 2))}

LowBars == Cardinality({i \in DOMAIN bars : REq(bars[i].close, LowClose)})
LongCloses ==
    FrameCloses(IF bars = <<>> \/ REq(bars[Len(bars)].close, HighClose)
                THEN {HighClose, LowClose}
                ELSE {LowClose})
LongSignals(ts, price) ==
    IF REq(price, HighClose)
    THEN {Signal(ts, "BUY", I(1), RZero)}
    ELSE {Signal(ts, side, I(1), RZero) : side \in {"BUY", "SELL"}}

InitLongRun ==
    /\ rm \in LongManagers
    /\ InitRiskPart /\ InitPortfolioPart /\ InitLivePart /\ InitAsyncPart
    /\ equity_series = <<>> /\ bars = <<>> /\ lastBar = NoBar
    /\ onFills = <<>> /\ btPc = "running"

\* one iteration of the loop of BacktestEngine.run on the long data frame
LongBarStep ==
    /\ btPc = "running"
    /\ Len(bars) < MaxLongBars
    /\ \E price \in LongCloses :
       \E ts \in {Len(bars) + 1} :
       \E signal \in LongSignals(ts, price) :
       \E b \in {run_bar(rm, portfolio, ts, price, signal)} :
            /\ REq(price, LowClose) => LowBars < MaxLowBars
            /\ portfolio' = b.portfolio
            /\ equity_series' = equity_series \o b.appended
            /\ onFills' = onFills \o b.fills
            /\ bars' = Append(bars, [ts |-> ts, close |-> price, signal |-> signal])
            /\ lastBar' = [processed |-> TRUE, ts |-> ts, price |-> price,
                           signal |-> signal, before |-> portfolio,
                           outcome |-> b.outcome, trace |-> b.trace,
                           fills_before |-> Len(onFills),
                           entries_before |-> Len(equity_series)]
            /\ raised' = b.raised
            /\ btPc' = IF b.raised THEN "raised" ELSE "running"
    /\ UNCHANGED <<rm, riskVars, calls, liveVars, asyncVars>>

NextLongRun == LongBarStep \/ Finish

SpecLongRun == InitLongRun /\ [][NextLongRun]_vars

(***************************************************************************)
(* simulation/live_paper/paper_broker.py, simulation/live_paper/runner.py  *)
(***************************************************************************)
FeeRate == Rat(1, 2000)

Order(id, symbol, side, quantity) ==
    [id |-> id, symbol |-> symbol, side |-> side, quantity |-> quantity,
     order_type |-> "MARKET"]

Trade(order_id, symbol, side, quantity, price, fee) ==
    [order_id |-> order_id, symbol |-> symbol, side |-> side,
     quantity |-> quantity, price |-> price, fee |-> fee]

\* PaperBroker.execute: the broker after the call and the ExecutionResult
PaperBroker_execute(brk, order, mark_price) ==
    CHOOSE result \in
        {[broker |-> [brk EXCEPT !.trades = Append(@, trade)],
          result |-> [success |-> TRUE, trade |-> trade]] :
            trade \in
                {Trade(order.id, order.symbol, order.side, order.quantity, mark_price,
                       fee) :
                    fee \in {RMul(RMul(RAbs(order.quantity), mark_price),
                                  brk.fee_rate)}}} : TRUE

\* _handle_bar on a bar given as a pd.Series with close = price. The sizing
\* comes first and raises ZeroDivisionError at a close of 0. approve() is
\* called with four arguments where RiskManager.approve takes three: with a
\* risk manager the call raises TypeError. The trace lists the steps taken:
\* sizing, the approve call, broker.execute, the session-ledger append,
\* on_fill and the cash update.
handle_bar(sess, brk, r, symbol, order_id, price, signal) ==
    IF signal = None
    THEN [session |-> sess, broker |-> brk, fills |-> <<>>,
          outcome |-> "no_signal", trace |-> <<>>, raised |-> FALSE]
    ELSE IF SizingRaises(sess.portfolio, Fraction, price)
    THEN [session |-> sess, broker |-> brk, fills |-> <<>>,
          outcome |-> "raised", trace |-> <<"size">>, raised |-> TRUE]
    ELSE
    CHOOSE result \in
        {IF r.present
         THEN [session |-> sess, broker |-> brk, fills |-> <<>>,
               outcome |-> "raised", trace |-> <<"size", "approve">>,
               raised |-> TRUE]
         ELSE CHOOSE filled \in
             {CHOOSE charged \in
                 {[session |->
                      [sess EXCEPT !.trades = Append(@, e.result.trade),
                                   !.portfolio.cash = RSub(@, spent)],
                   broker |-> e.broker, fills |-> <<sized>>,
                   outcome |-> "filled",
                   trace |-> <<"size", "execute", "ledger", "on_fill", "cash">>,
                   raised |-> FALSE] :
                     spent \in {IF sized.side = "BUY"
                                THEN RMul(e.result.trade.quantity, price)
                                ELSE RZero}} : TRUE :
                 e \in {PaperBroker_execute(
                            brk, Order(order_id, symbol, sized.side, sized.size),
                            price)}} : TRUE :
            sized \in
                {[signal EXCEPT
                    !.size = fixed_fractional(signal, sess.portfolio, Fraction,
                                              price)]}} : TRUE

(***************************************************************************)
(* PaperBroker.execute called on its own: any order at any mark price.     *)
(***************************************************************************)
BrokerFeeRates == {RZero, FeeRate}
OrderQuantities == {I(1), I(-2)}
MarkPrices == {I(-100), I(50), I(100)}

InitBroker ==
    /\ rm = NoRiskManager
    /\ InitRiskPart /\ InitPortfolioPart /\ InitBacktestPart /\ InitAsyncPart
    /\ session = [portfolio |-> PortfolioState(RZero, EmptyDict, NoSeries),
                  trades |-> <<>>]
    /\ \E f \in BrokerFeeRates : broker = [fee_rate |-> f, trades |-> <<>>]
    /\ liveLast = NoHandled

\* broker.execute(order, mark_price=...): the call and what it returned
Execute ==
    /\ Len(calls) < MaxExecs
    /\ \E side \in {"BUY", "SELL"}, quantity \in OrderQuantities,
          mark_price \in MarkPrices :
       \E order \in {Order(Len(calls) + 1, "asset", side, quantity)} :
       \E x \in {PaperBroker_execute(broker, order, mark_price)} :
            /\ broker' = x.broker
            /\ calls' = Append(calls, [order |-> order, mark_price |-> mark_price,
                                       result |-> x.result])
            /\ raised' = FALSE
    /\ UNCHANGED <<rm, riskVars, portfolio, btVars, onFills, session, liveLast,
                   asyncVars>>

SpecBroker == InitBroker /\ [][Execute]_vars

LiveManagers == {NoRiskManager, RiskManager(Rat(1, 5), Rat(1, 2))}
LiveSignals(ts) == {None, Signal(ts, "BUY", I(1), RZero), Signal(ts, "SELL", I(1), RZero)}

\* run_live_paper: the session, the broker and the risk manager of the session
InitLive ==
    /\ rm \in LiveManagers
    /\ InitRiskPart /\ InitPortfolioPart /\ InitBacktestPart /\ InitAsyncPart
    /\ session = [portfolio |-> PortfolioState(I(InitialCash), EmptyDict, NoSeries),
                  trades |-> <<>>]
    /\ broker = [fee_rate |-> FeeRate, trades |-> <<>>]
    /\ liveLast = NoHandled

HandleBar ==
    /\ liveLast.handled < MaxLiveBars
    /\ \E price \in BarPrices, signal \in LiveSignals(liveLast.handled + 1) :
       \E h \in {handle_bar(session, broker, rm, "asset", liveLast.handled + 1,
                              price, signal)} :
            /\ session' = h.session
            /\ broker' = h.broker
            /\ onFills' = onFills \o h.fills
            /\ raised' = h.raised
            /\ liveLast' = [handled |-> liveLast.handled + 1, price |-> price,
                            signal |-> signal, outcome |-> h.outcome,
                            trace |-> h.trace, before |-> session]
    /\ UNCHANGED <<rm, riskVars, portfolio, calls, btVars, asyncVars>>

SpecLive == InitLive /\ [][HandleBar]_vars

(***************************************************************************)
(* execution/order_manager.py                                              *)
(***************************************************************************)
TargetPosition(symbol, quantity) == [symbol |-> symbol, quantity |-> quantity]

\* generate_orders(current_qty, target, price); id is what generate_order_id
\* returns for the order
generate_orders(id, current_qty, target, price) ==
    LET delta == RSub(target.quantity, current_qty)
    IN  IF REq(delta, RZero)
        THEN <<>>
        ELSE <<Order(id, target.symbol,
                     IF RLt(RZero, delta) THEN "BUY" ELSE "SELL", RAbs(delta))
               @@ [price |-> price]>>

\* run_live_paper with an initial cash that is positive, large or small:
\* 10000.0 or the smallest positive float, 5e-324
InitOrders ==
    /\ rm \in LiveManagers
    /\ InitRiskPart /\ InitPortfolioPart /\ InitBacktestPart /\ InitAsyncPart
    /\ \E initial_cash \in {I(InitialCash),
                             [neg |-> FALSE, m |-> <<1>>, e |-> -1074,
                              np |-> FALSE]} :
            session = [portfolio |-> PortfolioState(initial_cash, EmptyDict, NoSeries),
                       trades |-> <<>>]
    /\ broker = [fee_rate |-> FeeRate, trades |-> <<>>]
    /\ liveLast = NoHandled

\* a call of generate_orders beside a live session; calls holds the latest
\* call and its result
GenerateOrders ==
    /\ \E current_qty \in {I(-1), RZero, Rat(1, 2)},
          quantity \in {I(-1), RZero, Rat(1, 2)}, price \in {I(100)} :
            calls' = <<[current_qty |-> current_qty,
                        target |-> TargetPosition("asset", quantity),
                        price |-> price,
                        orders |-> generate_orders(liveLast.handled + 1, current_qty,
                                       TargetPosition("asset", quantity), price)]>>
    /\ UNCHANGED <<rm, riskVars, portfolio, raised, btVars, onFills, liveVars,
                   asyncVars>>

SpecOrders == InitOrders /\ [][HandleBar \/ GenerateOrders]_vars

(***************************************************************************)
(* The same bars and the same strategy decisions given to the backtest     *)
(* engine (historical replay) and to the live runner's handler, with the   *)
(* same initial cash and risk configuration and a broker fee rate of zero. *)
(***************************************************************************)
InitReplay ==
    /\ rm \in LiveManagers
    /\ InitRiskPart /\ InitAsyncPart
    /\ portfolio = SimulatedPortfolio(I(InitialCash))
    /\ calls = <<>> /\ raised = FALSE
    /\ equity_series = <<>> /\ bars = <<>> /\ lastBar = NoBar
    /\ onFills = <<>> /\ btPc = "running"
    /\ session = [portfolio |-> PortfolioState(I(InitialCash), EmptyDict, NoSeries),
                  trades |-> <<>>]
    /\ broker = [fee_rate |-> RZero, trades |-> <<>>]
    /\ liveLast = NoHandled

\* one bar: an iteration of the loop of BacktestEngine.run and a call of
\* _handle_bar, for the same close and the same signal of the strategy
ReplayStep ==
    /\ btPc = "running"
    /\ Len(bars) < MaxLiveBars
    /\ \E ts \in {Len(bars) + 1}, price \in BarPrices \cup {RZero} :
       \E signal \in LiveSignals(ts) :
       \E b \in {run_bar(rm, portfolio, ts, price, signal)},
          h \in {handle_bar(session, broker, rm, "asset", ts, price, signal)} :
            /\ portfolio' = b.portfolio
            /\ equity_series' = equity_series \o b.appended
            /\ onFills' = onFills \o b.fills
            /\ bars' = Append(bars, [ts |-> ts, close |-> price, signal |-> signal])
            /\ lastBar' = [processed |-> TRUE, ts |-> ts, price |-> price,
                           signal |-> signal, before |-> portfolio,
                           outcome |-> b.outcome, trace |-> b.trace,
                           fills_before |-> Len(onFills),
                           entries_before |-> Len(equity_series)]
            /\ btPc' = IF b.raised THEN "raised" ELSE "running"
            /\ session' = h.session
            /\ broker' = h.broker
            /\ liveLast' = [handled |-> liveLast.handled + 1, price |-> price,
                            signal |-> signal, outcome |-> h.outcome,
                            trace |-> h.trace, before |-> session]
            /\ raised' = (b.raised \/ h.raised)
    /\ UNCHANGED <<rm, riskVars, calls, asyncVars>>

SpecReplay == InitReplay /\ [][ReplayStep]_vars

(***************************************************************************)
(* A strategy that writes on the portfolio value it is given. The engine   *)
(* builds a new PortfolioState that holds the portfolio's cash by value    *)
(* and the portfolio's own positions dict (engine.py:39); the live runner  *)
(* hands over session.portfolio itself (runner.py:35). Runs without a risk *)
(* manager, so that the strategy is the only reader of the snapshot.       *)
(***************************************************************************)
StrategyWrites == {"nothing", "cash", "position"}

\* the object the strategy received, after the strategy's assignments
strategy_writes(snapshot, what) ==
    CASE what = "cash" -> [snapshot EXCEPT !.cash = RZero]
      [] what = "position" ->
            [snapshot EXCEPT
               !.positions = Put(@, "asset", Position("asset", RZero, I(1)))]
      [] OTHER -> snapshot

\* the engine's portfolio after generate_signal returned: the positions dict
\* is the one the snapshot holds, the cash is the portfolio's own attribute
engine_after_strategy(pf, what) ==
    [pf EXCEPT
       !.positions = strategy_writes(PortfolioState(pf.cash, pf.positions,
                                                    pf.equity_curve),
                                     what).positions]

\* the session after generate_signal returned: session.portfolio is the
\* object the strategy wrote on
session_after_strategy(sess, what) ==
    [sess EXCEPT !.portfolio = strategy_writes(@, what)]

InitSnapshot ==
    /\ rm = NoRiskManager
    /\ InitRiskPart /\ InitAsyncPart
    /\ portfolio = SimulatedPortfolio(I(InitialCash))
    /\ calls = <<>> /\ raised = FALSE
    /\ equity_series = <<>> /\ bars = <<>> /\ lastBar = NoBar
    /\ onFills = <<>>
    /\ btPc \in {"running", "idle"}
    /\ session = [portfolio |-> PortfolioState(I(InitialCash), EmptyDict, NoSeries),
                  trades |-> <<>>]
    /\ broker = [fee_rate |-> FeeRate, trades |-> <<>>]
    /\ liveLast = NoHandled

\* an iteration of the loop of BacktestEngine.run with such a strategy
SnapshotBarStep ==
    /\ btPc = "running"
    /\ Len(bars) < MaxLiveBars
    /\ \E ts \in {Len(bars) + 1}, price \in BarPrices, what \in StrategyWrites :
       \E signal \in LiveSignals(ts) :
       \E b \in {run_bar(rm, engine_after_strategy(portfolio, what), ts, price,
                         signal)} :
            /\ portfolio' = b.portfolio
            /\ equity_series' = equity_series \o b.appended
            /\ onFills' = onFills \o b.fills
            /\ bars' = Append(bars, [ts |-> ts, close |-> price, signal |-> signal])
            /\ lastBar' = [processed |-> TRUE, ts |-> ts, price |-> price,
                           signal |-> signal, before |-> portfolio,
                           outcome |-> b.outcome, trace |-> b.trace,
                           fills_before |-> Len(onFills),
                           entries_before |-> Len(equity_series)]
            /\ raised' = b.raised
            /\ btPc' = IF b.raised THEN "raised" ELSE "running"
    /\ UNCHANGED <<rm, riskVars, calls, liveVars, asyncVars>>

\* a call of _handle_bar with such a strategy
SnapshotHandleBar ==
    /\ btPc = "idle"
    /\ liveLast.handled < MaxLiveBars
    /\ \E price \in BarPrices, what \in StrategyWrites :
       \E signal \in LiveSignals(liveLast.handled + 1) :
       \E h \in {handle_bar(session_after_strategy(session, what), broker, rm,
                            "asset", liveLast.handled + 1, price, signal)} :
            /\ session' = h.session
            /\ broker' = h.broker
            /\ onFills' = onFills \o h.fills
            /\ raised' = h.raised
            /\ liveLast' = [handled |-> liveLast.handled + 1, price |-> price,
                            signal |-> signal, outcome |-> h.outcome,
                            trace |-> h.trace, before |-> session]
    /\ UNCHANGED <<rm, riskVars, portfolio, calls, btVars, asyncVars>>

NextSnapshot == SnapshotBarStep \/ SnapshotHandleBar

SpecSnapshot == InitSnapshot /\ [][NextSnapshot]_vars

(***************************************************************************)
(* data_ingestion/live_stream.py                                           *)
(***************************************************************************)
StreamModes == {"synthetic", "binance", "other"}
KlineTimes == 1..MaxCloseTime

\* a Bar of the stream: where it came from and, for a kline, its close time
StreamBar(source, close_time) == [source |-> source, close_time |-> close_time]

\* what an awaited call gives when the coroutine is resumed: the timer of a
\* sleep, the result or the exception of a client call, a kline with its close
\* time, or the CancelledError of a cancellation
Outcome(kind, close_time) == [kind |-> kind, close_time |-> close_time]

\* what resuming the stream up to its next await gives: the stream, the bars
\* yielded to the consumer on the way, and the exception that ended it
StreamResult(st, yields, stream_raised) ==
    [stream |-> st, yields |-> yields, raised |-> stream_raised]

\* LiveStream.__init__ (mode given in lower case): "binance" without the client
\* library becomes "synthetic"
LiveStream(mode, lib) ==
    [mode |-> IF mode = "binance" /\ ~lib THEN "synthetic" ELSE mode,
     lib |-> lib, pc |-> "init", client |-> "none", last_close |-> 0,
     fallback_to_synthetic |-> FALSE, closing_for |-> "none"]

\* _synthetic_stream: generate a bar, yield it, await the sleep
synthetic_next(st) ==
    StreamResult([st EXCEPT !.pc = "synth_sleep"], <<StreamBar("synthetic", 0)>>,
                 "none")

\* the outcomes the call awaited at st.pc can have, cancellation aside
Outcomes(st) ==
    CASE st.pc = "init" -> {Outcome("start", 0)}
      [] st.pc = "creating" -> {Outcome("ok", 0), Outcome("raise", 0)}
      [] st.pc = "polling" ->
            {Outcome("empty", 0), Outcome("raise", 0)}
            \cup {Outcome("kline", c) : c \in KlineTimes}
      [] st.pc \in {"empty_sleep", "poll_sleep", "synth_sleep"} ->
            {Outcome("timer", 0)}
      [] st.pc = "closing" -> {Outcome("ok", 0), Outcome("raise", 0)}
      [] OTHER -> {}

\* stream whose poll or connection error ends the generator without a fallback
stream_resume_no_fallback(st, o) ==
    LET cancelled == o.kind = "cancel"
        Ended(s, exc) == StreamResult([s EXCEPT !.pc = "done"], <<>>, exc)
        Closing(s, why) ==
            StreamResult([s EXCEPT !.pc = "closing", !.closing_for = why], <<>>,
                         "none")
        At(s, pc) == StreamResult([s EXCEPT !.pc = pc], <<>>, "none")
    IN  CASE st.pc = "init" ->
               IF cancelled THEN Ended(st, "CancelledError")
               ELSE LET s0 == LiveStream(st.mode, st.lib)
                    IN  IF s0.mode = "binance" /\ s0.lib THEN At(s0, "creating")
                        ELSE synthetic_next(s0)
          [] st.pc = "creating" ->
               IF cancelled THEN Ended(st, "CancelledError")
               ELSE IF o.kind = "ok" THEN At([st EXCEPT !.client = "open"], "polling")
               ELSE Ended(st, "StopAsyncIteration")
          [] st.pc = "polling" ->
               IF cancelled THEN Closing(st, "cancel")
               ELSE IF o.kind = "raise" THEN Closing(st, "error")
               ELSE IF o.kind = "empty" THEN At(st, "empty_sleep")
               ELSE IF st.last_close = 0 \/ o.close_time > st.last_close
               THEN StreamResult([st EXCEPT !.last_close = o.close_time,
                                            !.pc = "poll_sleep"],
                                 <<StreamBar("binance", o.close_time)>>, "none")
               ELSE At(st, "poll_sleep")
          [] st.pc \in {"empty_sleep", "poll_sleep"} ->
               IF cancelled THEN Closing(st, "cancel") ELSE At(st, "polling")
          [] st.pc = "closing" ->
               IF cancelled THEN Ended(st, "CancelledError")
               ELSE LET closed == [st EXCEPT
                                     !.client = IF o.kind = "ok" THEN "closed"
                                                ELSE "close_failed",
                                     !.closing_for = "none"]
                    IN  IF st.closing_for = "error"
                        THEN Ended(closed, "StopAsyncIteration")
                        ELSE Ended(closed, "CancelledError")
          [] st.pc = "synth_sleep" ->
               IF cancelled THEN Ended(st, "CancelledError") ELSE synthetic_next(st)
          [] OTHER -> StreamResult(st, <<>>, "none")

\* LiveStream.__aiter__ / _binance_stream / _synthetic_stream resumed at the
\* await st.pc with outcome o, run up to the next await. A CancelledError is
\* not an Exception: it skips the except clause, runs the finally clause (which
\* awaits close_connection when a client exists) and leaves the generator. A
\* cancellation that arrives while close_connection is awaited interrupts it:
\* the call does not return and the client stays open.
stream_resume(st, o) ==
    LET cancelled == o.kind = "cancel"
        Ended(s, exc) == StreamResult([s EXCEPT !.pc = "done"], <<>>, exc)
        Closing(s, why) ==
            StreamResult([s EXCEPT !.pc = "closing", !.closing_for = why], <<>>,
                         "none")
        At(s, pc) == StreamResult([s EXCEPT !.pc = pc], <<>>, "none")
    IN  CASE st.pc = "init" ->
               IF cancelled THEN Ended(st, "CancelledError")
               ELSE LET s0 == LiveStream(st.mode, st.lib)
                    IN  IF s0.mode = "binance" /\ s0.lib THEN At(s0, "creating")
                        ELSE synthetic_next(s0)
          [] st.pc = "creating" ->
               IF cancelled THEN Ended(st, "CancelledError")
               ELSE IF o.kind = "ok" THEN At([st EXCEPT !.client = "open"], "polling")
               ELSE synthetic_next([st EXCEPT !.fallback_to_synthetic = TRUE])
          [] st.pc = "polling" ->
               IF cancelled THEN Closing(st, "cancel")
               ELSE IF o.kind = "raise"
               THEN Closing([st EXCEPT !.fallback_to_synthetic = TRUE], "error")
               ELSE IF o.kind = "empty" THEN At(st, "empty_sleep")
               ELSE IF st.last_close = 0 \/ o.close_time > st.last_close
               THEN StreamResult([st EXCEPT !.last_close = o.close_time,
                                            !.pc = "poll_sleep"],
                                 <<StreamBar("binance", o.close_time)>>, "none")
               ELSE At(st, "poll_sleep")
          [] st.pc \in {"empty_sleep", "poll_sleep"} ->
               IF cancelled THEN Closing(st, "cancel") ELSE At(st, "polling")
          [] st.pc = "closing" ->
               IF cancelled THEN Ended(st, "CancelledError")
               ELSE LET closed == [st EXCEPT
                                     !.client = IF o.kind = "ok" THEN "closed"
                                                ELSE "close_failed",
                                     !.closing_for = "none"]
                    IN  IF st.closing_for = "error" THEN synthetic_next(closed)
                        ELSE Ended(closed, "CancelledError")
          [] st.pc = "synth_sleep" ->
               IF cancelled THEN Ended(st, "CancelledError") ELSE synthetic_next(st)
          [] OTHER -> StreamResult(st, <<>>, "none")

\* the stream is being, or has been, cancelled
StreamCancelled == stream.pc = "done" \/ stream.closing_for = "cancel"

(***************************************************************************)
(* A consumer iterating the stream on its own (async for bar in stream),   *)
(* with the awaited calls completing fairly.                               *)
(***************************************************************************)
InitStream ==
    /\ rm = NoRiskManager
    /\ InitRiskPart /\ InitPortfolioPart /\ InitBacktestPart /\ InitLivePart
    /\ \E mode \in StreamModes, lib \in BOOLEAN :
          stream = [NoStream EXCEPT !.mode = mode, !.lib = lib]
    /\ loop = NoLoop
    /\ hist = NoHistory
    /\ clock = NoClock

\* the awaited call completes and the generator runs up to its next await
StreamStep ==
    /\ stream.pc # "done"
    /\ \E o \in Outcomes(stream) :
       \E r \in {stream_resume(stream, o)} :
            /\ stream' = r.stream
            /\ hist' = [hist EXCEPT
                          !.received = IF r.yields = <<>> THEN @ ELSE r.yields,
                          !.parity = IF r.yields = <<>> THEN @ ELSE 1 - @]
            /\ raised' = (r.raised \notin {"none", "CancelledError"})
    /\ UNCHANGED <<rm, riskVars, portfolio, calls, btVars, onFills, liveVars, loop,
                   clock>>

\* the consumer is cancelled while the generator is suspended at an await,
\* the await of close_connection that an earlier cancellation led to included
StreamCancel ==
    /\ stream.pc # "done"
    /\ \E r \in {stream_resume(stream, Outcome("cancel", 0))} :
            /\ stream' = r.stream
            /\ hist' = hist
    /\ UNCHANGED <<rm, riskVars, portfolio, calls, raised, btVars, onFills,
                   liveVars, loop, clock>>

NextStream == StreamStep \/ StreamCancel

SpecStreamFair == InitStream /\ [][NextStream]_vars /\ WF_vars(StreamStep)

(***************************************************************************)
(* The same consumer with the wall clock: Bar.timestamp is the close time  *)
(* of the kline for a live bar and the clock reading at generation for a   *)
(* synthetic bar. Close times and clock readings are in the same unit.     *)
(***************************************************************************)
\* Bar.timestamp as _kline_to_bar and _generate_bar set it
bar_timestamp(bar, now) ==
    IF bar.source = "binance" THEN bar.close_time ELSE now

\* the time that passes while the call awaited at st.pc completes: a sleep of
\* poll_interval takes at least one unit, a client call may take less
Elapsed(st) ==
    IF st.pc \in {"empty_sleep", "poll_sleep", "synth_sleep"} THEN 1..MaxTick
    ELSE 0..MaxTick

InitStreamClock ==
    /\ rm = NoRiskManager
    /\ InitRiskPart /\ InitPortfolioPart /\ InitBacktestPart /\ InitLivePart
    /\ \E mode \in StreamModes, lib \in BOOLEAN :
          stream = [NoStream EXCEPT !.mode = mode, !.lib = lib]
    /\ loop = NoLoop
    /\ hist = NoHistory
    /\ \E t \in 0..1 : clock = [now |-> t, stamps |-> <<>>]

\* the awaited call completes after some time and the generator runs up to
\* its next await, stamping the bars it yields
ClockedStreamStep ==
    /\ stream.pc # "done"
    /\ \E o \in Outcomes(stream), dt \in Elapsed(stream) :
       \E r \in {stream_resume(stream, o)} :
            /\ clock.now + dt <= MaxClock
            /\ stream' = r.stream
            /\ hist' = [hist EXCEPT
                          !.received = @ \o r.yields,
                          !.parity = IF r.yields = <<>> THEN @ ELSE 1 - @]
            /\ clock' = [now |-> clock.now + dt,
                         stamps |-> clock.stamps \o
                                    [k \in 1..Len(r.yields) |->
                                        bar_timestamp(r.yields[k], clock.now + dt)]]
            /\ raised' = (r.raised \notin {"none", "CancelledError"})
    /\ UNCHANGED <<rm, riskVars, portfolio, calls, btVars, onFills, liveVars, loop>>

SpecStreamClock == InitStreamClock /\ [][ClockedStreamStep]_vars

(***************************************************************************)
(* run_live_paper / run_stream on the asyncio event loop: the main task    *)
(* iterates the stream and creates one task per bar; the loop runs the     *)
(* ready tasks first in, first out, each up to its next await.             *)
(***************************************************************************)
MainTask == [kind |-> "main", bar |-> 0, pc |-> "start"]
HandlerTask(i) == [kind |-> "handler", bar |-> i, pc |-> "start"]

\* event loop that runs the task made ready last
LastIndex(ready) == Len(ready)

\* the position in the ready queue of the task the event loop runs next
NextIndex(ready) == 1
NextTask(ready) == ready[NextIndex(ready)]
RestTasks(ready) ==
    [k \in 1..(Len(ready) - 1) |->
        IF k < NextIndex(ready) THEN ready[k] ELSE ready[k + 1]]

\* _handle_bar that raises only after broker.execute has recorded a trade
handle_stream_bar_partial(sess, brk, r, symbol, bar) ==
    [session |-> sess,
     broker |-> PaperBroker_execute(brk, Order(1, symbol, "BUY", I(1)), I(100)).broker,
     fills |-> <<>>, outcome |-> "raised",
     trace |-> <<"generate_signal", "execute">>, raised |-> TRUE]

\* _handle_bar on a Bar of the stream: generate_signal is called with the
\* session portfolio, then row["close"] on the dataclass raises TypeError
handle_stream_bar(sess, brk, r, symbol, bar) ==
    [session |-> sess, broker |-> brk, fills |-> <<>>, outcome |-> "raised",
     trace |-> <<"generate_signal">>, raised |-> TRUE]

\* handler that awaits twice between its first and its last statement
handler_segment_awaits(task) ==
    CASE task.pc = "start" -> [events |-> <<<<"start", task.bar>>>>, pc |-> "mid"]
      [] task.pc = "mid" -> [events |-> <<>>, pc |-> "last"]
      [] OTHER -> [events |-> <<<<"end", task.bar>>>>, pc |-> "done"]

\* one run of a handler task up to its next await: _handle_bar awaits
\* nothing, so the task starts and ends in the same run
handler_segment(task) ==
    [events |-> <<<<"start", task.bar>>, <<"end", task.bar>>>>, pc |-> "done"]

InitSession ==
    /\ rm \in LiveManagers
    /\ InitRiskPart /\ InitPortfolioPart /\ InitBacktestPart
    /\ session = [portfolio |-> PortfolioState(I(InitialCash), EmptyDict, NoSeries),
                  trades |-> <<>>]
    /\ broker = [fee_rate |-> FeeRate, trades |-> <<>>]
    /\ liveLast = NoHandled
    /\ \E entry \in {"run_live_paper", "run_stream"}, mode \in StreamModes,
          lib \in BOOLEAN :
          /\ entry = "run_live_paper" => mode = "synthetic"
          /\ stream = [NoStream EXCEPT !.mode = mode, !.lib = lib]
          /\ loop = [entry |-> entry, ready |-> <<MainTask>>, main |-> "scheduled",
                     must_cancel |-> FALSE, cancel_requested |-> FALSE,
                     result |-> "none"]
    /\ hist = NoHistory
    /\ clock = NoClock

\* the loop runs the main task: the stream is resumed, each bar it yields is
\* handed to the callback, which creates a task for its handler
RunMain ==
    /\ loop.ready # <<>>
    /\ NextTask(loop.ready).kind = "main"
    /\ \E o \in (IF loop.must_cancel THEN {Outcome("cancel", 0)}
                 ELSE Outcomes(stream)) :
       \E r \in {stream_resume(stream, o)} :
            /\ stream' = r.stream
            /\ hist' = [hist EXCEPT
                          !.received = @ \o r.yields,
                          !.parity = IF r.yields = <<>> THEN @ ELSE 1 - @]
            /\ loop' = [loop EXCEPT
                          !.ready = RestTasks(@) \o
                                    [k \in 1..Len(r.yields) |->
                                        HandlerTask(Len(hist.received) + k)],
                          !.main = IF r.raised = "none" THEN "waiting" ELSE "done",
                          !.must_cancel = FALSE,
                          !.result = IF r.raised = "none" THEN @
                                     ELSE IF r.raised = "StopAsyncIteration"
                                          /\ loop.entry = "run_live_paper"
                                     THEN "session"
                                     ELSE IF r.raised = "StopAsyncIteration"
                                     THEN "None"
                                     ELSE r.raised]
    /\ UNCHANGED <<rm, riskVars, portfolio, calls, raised, btVars, onFills, liveVars,
                   clock>>

\* the call the main task awaits completes: the task becomes ready again
Wake ==
    /\ loop.main = "waiting"
    /\ Len(hist.received) < MaxStreamBars \/ stream.closing_for = "cancel"
    /\ loop' = [loop EXCEPT !.ready = Append(@, MainTask), !.main = "scheduled"]
    /\ UNCHANGED <<rm, riskVars, portfolio, calls, raised, btVars, onFills,
                   liveVars, stream, hist, clock>>

\* Task.cancel() on the main task: CancelledError is thrown into it at the
\* await where it is suspended, the next time the loop runs it; the task can
\* be cancelled again while it handles an earlier cancellation
Cancel ==
    /\ loop.main # "done"
    /\ loop' = [loop EXCEPT
                  !.cancel_requested = TRUE,
                  !.must_cancel = TRUE,
                  !.ready = IF loop.main = "waiting" THEN Append(@, MainTask) ELSE @,
                  !.main = "scheduled"]
    /\ UNCHANGED <<rm, riskVars, portfolio, calls, raised, btVars, onFills,
                   liveVars, stream, hist, clock>>

\* the loop runs a handler task
RunHandler ==
    /\ loop.ready # <<>>
    /\ NextTask(loop.ready).kind = "handler"
    /\ \E t \in {NextTask(loop.ready)} :
       \E seg \in {handler_segment(t)} :
       \E h \in {IF seg.pc = "done"
                 THEN handle_stream_bar(session, broker, rm, "asset",
                                        hist.received[t.bar])
                 ELSE [session |-> session, broker |-> broker, fills |-> <<>>,
                       outcome |-> "suspended", trace |-> <<>>, raised |-> FALSE]} :
            /\ session' = h.session
            /\ broker' = h.broker
            /\ onFills' = onFills \o h.fills
            /\ raised' = h.raised
            /\ liveLast' = [handled |-> IF seg.pc = "done" THEN liveLast.handled + 1
                                        ELSE liveLast.handled,
                            price |-> RZero, signal |-> None,
                            outcome |-> h.outcome, trace |-> h.trace,
                            before |-> session]
            /\ hist' = [hist EXCEPT !.events = @ \o seg.events]
            /\ loop' = [loop EXCEPT
                          !.ready = IF seg.pc = "done" THEN RestTasks(@)
                                    ELSE Append(RestTasks(@), [t EXCEPT !.pc = seg.pc])]
    /\ UNCHANGED <<rm, riskVars, portfolio, calls, btVars, stream, clock>>

NextSession == RunMain \/ Wake \/ Cancel \/ RunHandler

SpecSession == InitSession /\ [][NextSession]_vars

\* the event loop runs every task that is ready, and the sleep the stream
\* awaits between two bars ends; nothing obliges anyone to cancel
SpecSessionFair ==
    /\ InitSession /\ [][NextSession]_vars
    /\ WF_vars(RunMain) /\ WF_vars(RunHandler) /\ WF_vars(Wake)

(***************************************************************************)
(* Properties.                                                             *)
(***************************************************************************)
\* the quantities the risk claims speak of, for the last approve() call
LogEquity == total_value(approveLog.portfolio, AssetMark(approveLog.price))
LogMaxQty == RDiv(RMul(rm.max_position_pct, LogEquity), approveLog.price)
LogSize == approveLog.signal.size

\* C1: halt irreversibility: once approve() has returned None because the
\* daily-loss rule was breached, every later approve() on the same RiskManager
\* returns None, whatever the signal, snapshot and price.
C1_HaltIrreversible ==
    (approveLog.called /\ approveLog.afterBreach /\ ~approveLog.raised)
    => approveLog.result = None

\* the drawdown of the pre-trade equity of the last bar, marked at its close,
\* against the first equity value recorded in the run
LastBarDrawdown ==
    LET start == equity_series[1][2]
    IN  RDiv(RSub(start, mark_to_market(lastBar.before, AssetMark(lastBar.price))),
             start)

\* C2: in a backtest with a risk manager, a bar whose pre-trade equity at the
\* close is at least max_daily_loss below the first recorded equity produces no
\* fill for a signal: cash and positions are as before the bar.
C2_BreachBarHasNoFill ==
    (/\ lastBar.processed /\ rm.present /\ lastBar.signal # None
     /\ lastBar.entries_before >= 1
     /\ RLe(rm.max_daily_loss, LastBarDrawdown))
    => (/\ portfolio.cash = lastBar.before.cash
        /\ portfolio.positions = lastBar.before.positions)

StrictlyAscending(bs) == \A i \in 1..(Len(bs) - 1) : bs[i].ts < bs[i + 1].ts

\* C3: equity-curve completeness: the curve returned by a run over N bars with
\* strictly ascending timestamps has exactly N entries, keyed by the bar
\* timestamps in order, whether a bar had no signal, a rejected or a filled one.
C3_EquityCurveComplete ==
    (btPc = "returned" /\ StrictlyAscending(bars))
    => (/\ ~portfolio.equity_curve.isNone
        /\ Len(portfolio.equity_curve.data) = Len(bars)
        /\ \A i \in 1..Len(bars) : portfolio.equity_curve.data[i][1] = bars[i].ts)

C3_Witness ==
    /\ btPc = "returned" /\ Len(bars) = 2 /\ StrictlyAscending(bars)
    /\ lastBar.outcome = "rejected_second"
    /\ bars[1].signal = None

\* initial cash - sum of qty*price over the BUY calls + the same over the SELLs
RECURSIVE LedgerCash(_, _)
LedgerCash(start, cs) ==
    IF cs = <<>> THEN start
    ELSE LET c == cs[Len(cs)]
             rest == LedgerCash(start, SubSeq(cs, 1, Len(cs) - 1))
         IN  IF c.side = "BUY" THEN RSub(rest, RMul(c.qty, c.price))
             ELSE RAdd(rest, RMul(c.qty, c.price))

\* C4: cash conservation in the portfolio model: after any sequence of
\* update_position calls, cash = initial cash - sum(BUY qty*price)
\* + sum(SELL qty*price), oversells and lazily created positions included.
C4_CashConservation == portfolio.cash = LedgerCash(I(InitialCash), calls)

HeldBefore(c) == Get(c.before.positions, c.symbol, Position(c.symbol, RZero, c.price)).quantity

C4_Witness ==
    /\ Len(calls) = 3
    /\ \E i \in 1..3 : /\ calls[i].side = "SELL"
                       /\ calls[i].symbol \notin DOMAIN calls[i].before.positions.at
                       /\ calls[i].qty = I(20)
    /\ \E i \in 1..3 : /\ calls[i].side = "BUY" /\ calls[i].qty = I(3)
                       /\ calls[i].price = Rat(1, 10)

\* the cash the claim expects from the session ledger: every BUY debits and
\* every SELL credits qty*price, and every fill pays its fee
RECURSIVE TradesCash(_, _)
TradesCash(start, ts) ==
    IF ts = <<>> THEN start
    ELSE LET t == ts[Len(ts)]
             rest == TradesCash(start, SubSeq(ts, 1, Len(ts) - 1))
             gross == RMul(t.quantity, t.price)
         IN  RSub(IF t.side = "BUY" THEN RSub(rest, gross) ELSE RAdd(rest, gross),
                  t.fee)

\* C5: cash conservation in the live runner: session cash = initial cash
\* - qty*price of every BUY fill + qty*price of every SELL fill - the fee of
\* every fill in the session ledger.
C5_LiveCashConservation ==
    session.portfolio.cash = TradesCash(I(InitialCash), session.trades)

\* C6: position cap bound: a signal returned by approve has absolute size at
\* most (max_position_pct * equity) / price, equity being the snapshot's total
\* value marked at that price.
C6_CapBound ==
    (approveLog.called /\ approveLog.result # None /\ ~REq(approveLog.price, RZero))
    => RLe(RAbs(approveLog.result.size), LogMaxQty)

\* C7: cap-or-pass: when the daily-loss rule passes, a signal with
\* |size| <= max_qty = max_position_pct * equity / price is returned unchanged,
\* and one with |size| > max_qty > 0 comes back as a copy whose size is max_qty.
C7_CapOrPass_Claimed ==
    (approveLog.called /\ ~approveLog.raised /\ ~approveLog.blockedByLoss
     /\ ~REq(approveLog.price, RZero))
    => (/\ RLe(RAbs(LogSize), LogMaxQty) => approveLog.result = approveLog.signal
        /\ (RLt(LogMaxQty, RAbs(LogSize)) /\ RLt(RZero, LogMaxQty))
           => approveLog.result = [approveLog.signal EXCEPT !.size = LogMaxQty])

\* C8: position-rule rejection: approve returns None whenever price <= 0, or
\* the snapshot's equity at that price is <= 0, or max_qty <= 0.
C8_RejectsNonPositive ==
    (approveLog.called /\ ~approveLog.raised
     /\ (\/ RLe(approveLog.price, RZero)
         \/ RLe(LogEquity, RZero)
         \/ RLe(LogMaxQty, RZero)))
    => approveLog.result = None

\* C9: a bar without a fill (no signal, or a signal rejected at the first or
\* the second risk gate) leaves cash and every position unchanged, calls no
\* on_fill, does not raise and adds exactly one equity-curve entry.
C9_NoFillFrame ==
    (/\ lastBar.processed
     /\ (\/ lastBar.signal = None
         \/ lastBar.outcome \in {"rejected_first", "rejected_second"}))
    => (/\ portfolio.cash = lastBar.before.cash
        /\ portfolio.positions = lastBar.before.positions
        /\ Len(onFills) = lastBar.fills_before
        /\ btPc # "raised"
        /\ Len(equity_series) = lastBar.entries_before + 1
        /\ "update" \notin {lastBar.trace[i] : i \in DOMAIN lastBar.trace})

C9_Witness ==
    /\ lastBar.processed /\ Len(bars) = 2
    /\ lastBar.outcome = "rejected_first"
    /\ lastBar.signal.side = "BUY"
    /\ Len(equity_series) = 2

\* the portfolio right after the i-th update_position call of the harness
AfterCall(i) == IF i = Len(calls) THEN portfolio ELSE calls[i + 1].before

\* C10: oversell clamping: a SELL of more than the quantity held sets the
\* position quantity to exactly 0 and credits the full qty*price to cash.
C10_OversellClamps ==
    \A i \in 1..Len(calls) :
        (calls[i].side = "SELL" /\ RLt(HeldBefore(calls[i]), calls[i].qty))
        => (/\ REq(AfterCall(i).positions.at[calls[i].symbol].quantity, RZero)
            /\ AfterCall(i).cash =
                  RAdd(calls[i].before.cash, RMul(calls[i].qty, calls[i].price)))

C10_Witness ==
    /\ Len(calls) >= 2
    /\ LET c == calls[Len(calls)]
       IN  /\ c.side = "SELL" /\ c.qty = I(20)
           /\ c.symbol \in DOMAIN c.before.positions.at
           /\ c.before.positions.at[c.symbol].quantity = I(3)
           /\ REq(portfolio.positions.at[c.symbol].quantity, RZero)

\* C11: in every reachable state of a backtest run, with or without a risk
\* manager, every Position of the portfolio has quantity >= 0.
C11_QuantityNonNegative ==
    \A s \in DOMAIN portfolio.positions.at :
        RLe(RZero, portfolio.positions.at[s].quantity)

\* the pre-trade snapshot of the last bar and what the two approve() calls of
\* the engine return on it
LastSnapshot ==
    PortfolioState(lastBar.before.cash, lastBar.before.positions,
                   lastBar.before.equity_curve)
LastFirstApprove == approve(rm, lastBar.signal, LastSnapshot, lastBar.price)
LastSized ==
    CHOOSE sized \in
        {[first EXCEPT
            !.size = fixed_fractional(first, lastBar.before, Fraction,
                                      lastBar.price)] :
            first \in {LastFirstApprove}} : TRUE
LastSecondApprove == approve(rm, LastSized, LastSnapshot, lastBar.price)

\* C12: two-phase approval in the backtest engine: on a bar with a signal and a
\* risk manager the engine runs approve on the raw signal, sizing, approve on
\* the sized signal, the portfolio update, on_fill and the equity append, in
\* this order; a null first approve skips sizing, the second approve, the
\* update and on_fill; both approves are made by the run's RiskManager on the
\* snapshot taken before the bar, and the fill is what the second returned
\* (a run that the update ends by raising stops right after the update).
C12_TwoPhaseOrder ==
    (lastBar.processed /\ rm.present /\ lastBar.signal # None)
    => IF LastFirstApprove = None
       THEN /\ lastBar.trace = <<"approve", "append">>
            /\ Len(onFills) = lastBar.fills_before
            /\ portfolio.cash = lastBar.before.cash
            /\ portfolio.positions = lastBar.before.positions
       ELSE \E second \in {LastSecondApprove} :
            IF second = None
            THEN /\ lastBar.trace = <<"approve", "size", "approve", "append">>
                 /\ Len(onFills) = lastBar.fills_before
                 /\ portfolio.cash = lastBar.before.cash
                 /\ portfolio.positions = lastBar.before.positions
            ELSE IF btPc = "raised"
            THEN /\ lastBar.trace = <<"approve", "size", "approve", "update">>
                 /\ Len(onFills) = lastBar.fills_before
            ELSE /\ lastBar.trace =
                       <<"approve", "size", "approve", "update", "on_fill", "append">>
                 /\ Len(onFills) = lastBar.fills_before + 1
                 /\ onFills[Len(onFills)] = second
                 /\ \E u \in {update_position(lastBar.before, "asset", second.side,
                                               second.size, lastBar.price)} :
                       /\ portfolio.cash = u.portfolio.cash
                       /\ portfolio.positions = u.portfolio.positions

C12_Witness ==
    /\ lastBar.processed /\ rm.present /\ Len(bars) = 2
    /\ lastBar.outcome = "filled"
    /\ lastBar.trace = <<"approve", "size", "approve", "update", "on_fill", "append">>
    /\ onFills[Len(onFills)].size # LastSized.size
    /\ bars[1].signal # None

\* C13: two-phase approval in the live runner: on a bar with a signal and a
\* risk manager, the runner calls approve on the raw signal before sizing and
\* again on the sized signal after sizing, as the backtest engine does.
C13_LiveTwoPhase ==
    (liveLast.handled > 0 /\ rm.present /\ liveLast.signal # None)
    => (/\ Len(liveLast.trace) >= 3
        /\ SubSeq(liveLast.trace, 1, 3) = <<"approve", "size", "approve">>)

\* C14: one bar at a time: no two bar handlers are in progress at once; the
\* event that follows the start of a handler is the end of that handler, so
\* every handler has finished before any other handler starts.
C14_OneAtATime ==
    \A k \in DOMAIN hist.events :
        (hist.events[k][1] = "start" /\ k < Len(hist.events))
        => hist.events[k + 1] = <<"end", hist.events[k][2]>>

C14_Witness ==
    /\ Len(hist.events) >= 4
    /\ hist.events[3] = <<"start", 2>>
    /\ \E k \in DOMAIN loop.ready : loop.ready[k] = HandlerTask(3)

\* the bars whose handlers have started, in the order in which they started
StartedBars ==
    LET starts == SelectSeq(hist.events, LAMBDA ev : ev[1] = "start")
    IN  [k \in DOMAIN starts |-> starts[k][2]]

\* C15: arrival order: the handlers run in the order in which the stream
\* yielded their bars: the k-th handler to run is that of the k-th bar received.
C15_ArrivalOrder ==
    /\ Len(StartedBars) <= Len(hist.received)
    /\ \A k \in DOMAIN StartedBars : StartedBars[k] = k

C15_Witness ==
    /\ Len(hist.received) = 3
    /\ StartedBars = <<1, 2, 3>>
    /\ liveLast.handled = 3

\* the cash the runner's own update rule leaves after the fills of a ledger
RECURSIVE AppliedCash(_, _)
AppliedCash(start, ts) ==
    IF ts = <<>> THEN start
    ELSE LET t == ts[Len(ts)]
             rest == AppliedCash(start, SubSeq(ts, 1, Len(ts) - 1))
         IN  IF t.side = "BUY" THEN RSub(rest, RMul(t.quantity, t.price)) ELSE rest

\* C16: apply-or-not-at-all under cancellation: once the session is cancelled,
\* at every point, each received bar has either all of its effects (broker
\* ledger, session ledger, on_fill, cash) or none: the two ledgers are equal,
\* on_fill was called once per trade, and the cash is that of the ledger.
C16_ApplyOrNotAtAll ==
    loop.cancel_requested
    => (/\ broker.trades = session.trades
        /\ Len(onFills) = Len(session.trades)
        /\ session.portfolio.cash = AppliedCash(I(InitialCash), session.trades)
        /\ Len(session.trades) <= Len(hist.received))

C16_Witness ==
    /\ loop.cancel_requested /\ loop.main = "done"
    /\ Len(hist.received) >= 2
    /\ liveLast.handled = Len(hist.received)
    /\ liveLast.outcome = "raised"

\* C17: connection release: once the subscription is cancelled, or the live
\* stream has ended in an error, no client that was opened is left open.
C17_ConnectionReleased ==
    (loop.main = "done" \/ stream.pc = "synth_sleep") => stream.client # "open"

\* C18: live-session termination: run_live_paper ends only on cancellation,
\* and then by returning the final LiveSessionState.
C18_ReturnsSessionOnCancel ==
    (loop.entry = "run_live_paper" /\ loop.main = "done")
    => (loop.cancel_requested /\ loop.result = "session")

\* C19: reconnect on transient failure: after a failed poll or connection
\* attempt the stream goes back to the live source; it does not run the
\* synthetic generator.
C19_ReconnectsAfterFailure ==
    stream.fallback_to_synthetic => stream.pc # "synth_sleep"

\* the live source is not in use: another mode was asked for, the client
\* library is missing, or a connection attempt or a poll has raised
LiveSourceUnavailable ==
    stream.mode # "binance" \/ ~stream.lib \/ stream.fallback_to_synthetic

\* C20 as claimed: the stream raises nothing to its consumer and, from every
\* state that is not cancelled, another bar is eventually yielded.
C20_AlwaysYields ==
    /\ [](~raised)
    /\ \A p \in {0, 1} :
          []((~StreamCancelled /\ hist.parity = p)
             => <>(hist.parity # p \/ StreamCancelled))

\* C20 (amended): the stream raises nothing to its consumer, and from every
\* state in which the live source is unavailable or has failed (library
\* missing, connection not created, poll raised) another bar is eventually
\* yielded unless the stream is cancelled.
C20_AbsorbsFailure ==
    /\ [](~raised)
    /\ \A p \in {0, 1} :
          []((LiveSourceUnavailable /\ ~StreamCancelled /\ hist.parity = p)
             => <>(hist.parity # p \/ StreamCancelled))

C20_Witness ==
    /\ stream.fallback_to_synthetic /\ stream.pc = "synth_sleep"
    /\ stream.client = "closed"
    /\ hist.received = <<StreamBar("synthetic", 0)>>
    /\ stream.last_close > 0

\* C21: ascending bars: the timestamps of the bars yielded by one stream are
\* strictly ascending, across a switch from the live source to the synthetic
\* generator as well.
C21_AscendingTimestamps ==
    \A k \in 1..(Len(clock.stamps) - 1) : clock.stamps[k] < clock.stamps[k + 1]

\* C22: replay/live equivalence: after the same bars and the same strategy
\* decisions, with fee rate zero, the live session has the cash and the
\* positions of the backtest portfolio, and its trade ledger lists the fills
\* of the backtest (side, quantity) in the same order.
C22_ReplayLiveEquivalence ==
    /\ session.portfolio.cash = portfolio.cash
    /\ session.portfolio.positions = portfolio.positions
    /\ Len(session.trades) = Len(onFills)
    /\ \A k \in 1..Len(session.trades) :
          /\ k <= Len(onFills)
          /\ session.trades[k].side = onFills[k].side
          /\ session.trades[k].quantity = onFills[k].size

\* C23: paper broker ledger: every execute call reports success with a Trade
\* that has the order's id, symbol, side and quantity, the mark price as its
\* price and the fee |quantity| * mark_price * fee_rate, which is >= 0; the
\* ledger holds exactly these trades, one per call, in call order.
C23_PaperBrokerLedger ==
    /\ Len(broker.trades) = Len(calls)
    /\ \A k \in 1..Len(calls) :
          LET c == calls[k]
              t == broker.trades[k]
          IN  /\ c.result.success
              /\ c.result.trade = t
              /\ t.order_id = c.order.id /\ t.symbol = c.order.symbol
              /\ t.side = c.order.side /\ t.quantity = c.order.quantity
              /\ t.price = c.mark_price
              /\ t.fee = RMul(RMul(RAbs(c.order.quantity), c.mark_price),
                              broker.fee_rate)
              /\ RLe(RZero, t.fee)

\* C24: snapshot isolation: what the strategy writes on the portfolio value
\* it is given changes nothing for the engine or the runner: after a bar, the
\* cash and the positions are those the bar gives from the cash and the
\* positions held before the strategy was called.
C24_SnapshotIsolation ==
    /\ lastBar.processed =>
          \E b \in {run_bar(rm, lastBar.before, lastBar.ts, lastBar.price,
                            lastBar.signal)} :
              /\ portfolio.cash = b.portfolio.cash
              /\ portfolio.positions = b.portfolio.positions
    /\ liveLast.handled > 0 =>
          \E h \in {handle_bar(liveLast.before, broker, rm, "asset",
                               liveLast.handled, liveLast.price, liveLast.signal)} :
              session.portfolio = h.session.portfolio

\* C25: per-bar errors do not end a run: a bar whose processing fails (the
\* strategy or the portfolio update raises) leaves the backtest running, with
\* the bar's entry appended to the equity series.
C25_BarErrorsAbsorbed ==
    (lastBar.processed /\ lastBar.outcome = "raised")
    => (/\ btPc # "raised"
        /\ Len(equity_series) = lastBar.entries_before + 1)

\* C26: backtest termination: a run over any finite bar sequence, the empty
\* one included, ends by returning a PortfolioState whose equity curve has
\* an entry for the timestamp of every bar.
C26_RunReturnsState ==
    btPc # "running"
    => (/\ btPc = "returned"
        /\ ~portfolio.equity_curve.isNone
        /\ \A i \in DOMAIN bars :
              \E k \in DOMAIN portfolio.equity_curve.data :
                 portfolio.equity_curve.data[k][1] = bars[i].ts)

\* C27: backtest determinism: two successive calls of run on the same engine
\* and risk manager, over the same bars with the same signals, end the same
\* way with equal cash, equal positions and equal equity curves.
C27_SameResult ==
    Len(calls) = 2
    => (/\ calls[2].bars = calls[1].bars
        /\ calls[2].outcome = calls[1].outcome
        /\ calls[2].cash = calls[1].cash
        /\ calls[2].positions = calls[1].positions
        /\ calls[2].equity_curve = calls[1].equity_curve)

C27_Witness ==
    /\ Len(calls) = 2
    /\ calls[2].outcome = "returned"
    /\ Len(calls[2].bars) = MaxBars
    /\ rm.present
    /\ calls[2].cash # I(InitialCash)
    /\ Len(onFills) >= 2

\* the snapshot the engine builds at the start of the last iteration
LastSnapshotState ==
    PortfolioState(lastBar.before.cash, lastBar.before.positions,
                   lastBar.before.equity_curve)

\* C28: the snapshot carries the equity curve so far: at the k-th bar of a
\* run the snapshot given to generate_signal and approve holds the k-1 equity
\* values recorded for the previous bars, the first recorded equity first.
C28_SnapshotCarriesCurve ==
    lastBar.processed
    => (/\ ~LastSnapshotState.equity_curve.isNone
        /\ Len(LastSnapshotState.equity_curve.data) = lastBar.entries_before
        /\ lastBar.entries_before >= 1
           => LastSnapshotState.equity_curve.data[1] = equity_series[1])

\* C29: daily-loss rule: validate passes when the snapshot has no equity
\* history (no curve, or an empty one); otherwise, for a first recorded equity
\* start > 0, it reports a breach exactly when (start - current) / start is at
\* least max_loss_pct, a drawdown equal to the threshold included.
C29_DailyLossRule ==
    approveLog.called
    => LET curve == approveLog.portfolio.equity_curve
           current == approveLog.portfolio.cash
       IN  IF curve.isNone \/ curve.data = <<>>
           THEN ~approveLog.blockedByLoss
           ELSE RLt(RZero, curve.data[1][2])
                => (approveLog.blockedByLoss
                    <=> RLe(rm.max_daily_loss,
                            RDiv(RSub(curve.data[1][2], current),
                                 curve.data[1][2])))

C29_Witness ==
    /\ approveLog.called /\ approveLog.blockedByLoss
    /\ Len(approveLog.portfolio.equity_curve.data) = 2
    /\ RLt(RZero, rm.max_daily_loss)
    /\ REq(RDiv(RSub(approveLog.portfolio.equity_curve.data[1][2],
                     approveLog.portfolio.cash),
                approveLog.portfolio.equity_curve.data[1][2]),
           rm.max_daily_loss)

\* the calls up to the i-th all have a positive quantity and a positive price
PositiveCalls(i) ==
    \A j \in 1..i : RLt(RZero, calls[j].qty) /\ RLt(RZero, calls[j].price)

\* C30: average price rule: in a sequence of calls with positive quantities
\* and prices, a BUY sets avg_price to (avg_old*qty_old + qty*price) /
\* (qty_old + qty), which is the buy price when the quantity held was 0 (new
\* position, or one emptied by sells), and a SELL leaves avg_price unchanged.
C30_AveragePrice ==
    \A i \in 1..Len(calls) :
        PositiveCalls(i)
        => LET c == calls[i]
               held == c.symbol \in DOMAIN c.before.positions.at
               qty_old == HeldBefore(c)
               after == AfterCall(i).positions.at[c.symbol]
           IN  IF c.side = "BUY"
               THEN /\ held =>
                         after.avg_price =
                            RDiv(RAdd(RMul(c.before.positions.at[c.symbol].avg_price,
                                           qty_old),
                                      RMul(c.qty, c.price)),
                                 RAdd(qty_old, c.qty))
                    /\ REq(qty_old, RZero) => after.avg_price = c.price
               ELSE held =>
                       after.avg_price = c.before.positions.at[c.symbol].avg_price

\* C31: zero-size signals are no-ops: an update_position call of size 0 (BUY
\* or SELL, on an empty or a non-empty position) does not fail and leaves cash
\* and every position's quantity and avg_price unchanged.
C31_ZeroSizeNoOp ==
    \A i \in 1..Len(calls) :
        REq(calls[i].qty, RZero)
        => /\ ~calls[i].raised
           /\ AfterCall(i).cash = calls[i].before.cash
           /\ \A s \in DOMAIN calls[i].before.positions.at :
                 /\ s \in DOMAIN AfterCall(i).positions.at
                 /\ AfterCall(i).positions.at[s] = calls[i].before.positions.at[s]

\* quantity * mark of the position held in s, the mark defaulting to avg_price
MarkedValue(pf, marks, s) ==
    IF s \notin DOMAIN pf.positions.at THEN RZero
    ELSE RMul(pf.positions.at[s].quantity,
              Get(marks, s, pf.positions.at[s].avg_price))

\* C32: valuation agreement: for the same cash, positions and marks,
\* total_value and mark_to_market return the same value, cash plus the sum over
\* positions of quantity * mark, with avg_price for a symbol that has no mark.
C32_ValuationAgreement ==
    \A i \in 1..Len(calls) :
        /\ calls[i].total_value = calls[i].mark_to_market
        /\ calls[i].total_value =
              RAdd(portfolio.cash,
                   RAdd(MarkedValue(portfolio, calls[i].marks, "asset"),
                        MarkedValue(portfolio, calls[i].marks, "other")))

\* the places of step x in a trace
Places(trace, x) == {k \in 1..Len(trace) : trace[k] = x}

\* C33: on_fill protocol in the live runner: on_fill is invoked exactly once
\* for every executed fill, with the signal that was executed, after the
\* portfolio (positions and cash) has been updated for that fill, and never for
\* a bar with no signal or a rejected signal.
C33_OnFillProtocol ==
    /\ Len(onFills) = Len(session.trades)
    /\ \A k \in 1..Len(onFills) :
          /\ onFills[k].side = session.trades[k].side
          /\ onFills[k].size = session.trades[k].quantity
    /\ liveLast.outcome = "filled"
       => /\ Cardinality(Places(liveLast.trace, "on_fill")) = 1
          /\ \A f \in Places(liveLast.trace, "on_fill") :
                \E c \in Places(liveLast.trace, "cash") : c < f
          /\ "asset" \in DOMAIN session.portfolio.positions.at
    /\ liveLast.outcome # "filled"
       => Places(liveLast.trace, "on_fill") = {}

\* C34: the price at which a backtest fill moves cash is the bar's close
\* adjusted by the engine's slippage: the close itself with slippage zero, a
\* price different from the close with a non-zero slippage.
C34_FillPrice ==
    (lastBar.processed /\ lastBar.outcome = "filled"
        /\ ~REq(onFills[Len(onFills)].size, RZero)) =>
        LET fill == onFills[Len(onFills)]
            amount == RMul(fill.size, lastBar.price)
            at_close == portfolio.cash =
                            IF fill.side = "BUY"
                            THEN RSub(lastBar.before.cash, amount)
                            ELSE RAdd(lastBar.before.cash, amount)
        IN  /\ REq(lastBar.slippage, RZero) => at_close
            /\ ~REq(lastBar.slippage, RZero) => ~at_close

\* C35: every Order the live runner constructs (initial cash and bar prices
\* positive) and every Order generate_orders returns has quantity > 0.
C35_OrderQuantityPositive ==
    /\ \A i \in 1..Len(broker.trades) : RLt(RZero, broker.trades[i].quantity)
    /\ liveLast.outcome = "filled" =>
            RLt(RZero, Order(liveLast.handled, "asset", liveLast.signal.side,
                             fixed_fractional(liveLast.signal, liveLast.before.portfolio,
                                              Fraction, liveLast.price)).quantity)
    /\ \A i \in 1..Len(calls) : \A j \in 1..Len(calls[i].orders) :
            RLt(RZero, calls[i].orders[j].quantity)

\* C36: a live bar whose signal is within all risk limits (or that is
\* handled without a risk manager) gets exactly one Order and exactly one
\* Trade for that order appended to the session's ledger.
C36_LiveFillsReachLedger ==
    (liveLast.handled > 0 /\ liveLast.signal # None) =>
        \E sized \in {[liveLast.signal EXCEPT
                         !.size = fixed_fractional(liveLast.signal,
                                      liveLast.before.portfolio, Fraction,
                                      liveLast.price)]} :
        LET within == ~rm.present
                      \/ approve(rm, sized, liveLast.before.portfolio,
                                 liveLast.price) = sized
            order == Order(liveLast.handled, "asset", sized.side, sized.size)
        IN  within =>
                /\ Len(session.trades) = Len(liveLast.before.trades) + 1
                /\ SubSeq(session.trades, 1, Len(liveLast.before.trades))
                        = liveLast.before.trades
                /\ session.trades[Len(session.trades)].order_id = order.id
                /\ session.trades[Len(session.trades)].side = order.side
                /\ session.trades[Len(session.trades)].quantity = order.quantity

\* C37: a backtest BUY fill, or a SELL fill of at most the held quantity,
\* leaves the mark-to-market value at the bar's close unchanged, and the
\* equity recorded for the bar is the pre-trade value at that close; a SELL
\* of more than the holding raises it by (qty - held) * close.
C37_FillsConserveValue ==
    (lastBar.processed /\ lastBar.outcome = "filled") =>
        LET mark == AssetMark(lastBar.price)
            pre == mark_to_market(lastBar.before, mark)
            post == mark_to_market(portfolio, mark)
            recorded == equity_series[lastBar.entries_before + 1][2]
            fill == onFills[lastBar.fills_before + 1]
            held == Get(lastBar.before.positions, "asset",
                        Position("asset", RZero, lastBar.price)).quantity
            gain == IF fill.side = "SELL" /\ RLt(held, fill.size)
                    THEN RMul(RSub(fill.size, held), lastBar.price)
                    ELSE RZero
        IN  /\ Len(equity_series) = lastBar.entries_before + 1
            /\ post = RAdd(pre, gain)
            /\ recorded = post

\* C38: between bar handlers of a live session the session ledger and the
\* broker ledger hold the same trades in the same order, and the session
\* cash carries the cash movement of every trade of the ledger: qty*price
\* out for a BUY, qty*price in for a SELL.
C38_LedgerAgreement ==
    LET RECURSIVE Moved(_, _)
        Moved(cash, ts) ==
            IF ts = <<>> THEN cash
            ELSE Moved(IF Head(ts).side = "BUY"
                       THEN RSub(cash, RMul(Head(ts).quantity, Head(ts).price))
                       ELSE RAdd(cash, RMul(Head(ts).quantity, Head(ts).price)),
                       Tail(ts))
    IN  /\ session.trades = broker.trades
        /\ session.portfolio.cash = Moved(I(InitialCash), session.trades)

\* C39: in a live session that is not cancelled every bar the stream yields
\* is handled by a handler that runs to completion, exactly once: no handler
\* of a received bar ends with an exception, no bar has more than one handler
\* run, and a handler runs only for a bar that was received.
C39_EveryBarHandledOnce ==
    (loop.entry = "run_live_paper" /\ ~loop.cancel_requested)
    => /\ \A k \in 1..Len(hist.events) :
            hist.events[k][2] \in 1..Len(hist.received)
       /\ \A i \in 1..Len(hist.received) :
            Cardinality({k \in 1..Len(hist.events) :
                            hist.events[k] = <<"end", i>>}) <= 1
       /\ liveLast.handled >= 1 => liveLast.outcome # "raised"

====
